---- MODULE Spec2Model ----
(***************************************************************************)
(* A model of redisclient.h: the wire codec (makecmd, read_line, read_n,   *)
(* the recv_*_reply_ decoders) and the connection set with its router      *)
(* (base_client::get_socket and the operations built on it).               *)
(*                                                                         *)
(* Bytes are one-character strings; a std::string is a sequence of bytes.  *)
(* A socket's inbound side is the sequence of bytes the peer has sent and  *)
(* the client has not yet consumed.                                        *)
(***************************************************************************)
EXTENDS Integers, Sequences, FiniteSets, TLC

\* ------------------------------------------------------------------ bounds
\* longest payload drawn for a bulk reply
MaxLen == 3
\* most elements appended to a command after its name
MaxArgs == 2

\* --------------------------------------------------------- program constants
CR == "\r"
LF == "\n"
REDIS_LBR == <<CR, LF>>
REDIS_STATUS_REPLY_OK == <<"O", "K">>
REDIS_PREFIX_STATUS_REPLY_ERROR == <<"-", "E", "R", "R", " ">>
REDIS_PREFIX_STATUS_REPLY_VALUE == "+"
REDIS_PREFIX_SINGLE_BULK_REPLY == "$"
REDIS_PREFIX_MULTI_BULK_REPLY == "*"
REDIS_PREFIX_INT_REPLY == ":"
\* the socket of a connection that was never connected (anet.h)
ANET_ERR == -1

\* read_line's peek window and its default byte budget
buffer_size == 64
default_max_size == 2048

\* base_client::missing_value(): "**nonexistent-key**"
missing_value ==
  <<"*", "*", "n", "o", "n", "e", "x", "i", "s", "t", "e", "n", "t",
    "-", "k", "e", "y", "*", "*">>

\* ------------------------------------------------------------ byte strings
DigitChars == <<"0", "1", "2", "3", "4", "5", "6", "7", "8", "9">>

Min(a, b) == IF a < b THEN a ELSE b

RECURSIVE Flatten(_)
Flatten(ss) == IF ss = <<>> THEN <<>> ELSE Head(ss) \o Flatten(Tail(ss))

\* std::string::find(prefix) == 0
StartsWith(str, prefix) ==
  /\ Len(str) >= Len(prefix)
  /\ SubSeq(str, 1, Len(prefix)) = prefix

\* boost::lexical_cast<std::string>(n) for an integral n: decimal digits,
\* a leading '-' for a negative value.
RECURSIVE NatDigits(_)
NatDigits(n) ==
  IF n < 10 THEN <<DigitChars[n + 1]>>
  ELSE NatDigits(n \div 10) \o <<DigitChars[(n % 10) + 1]>>

lexical_cast_string(n) ==
  IF n < 0 THEN <<"-">> \o NatDigits(0 - n) ELSE NatDigits(n)

\* boost::lexical_cast<int_type>(str): an optional sign followed by one or
\* more decimal digits and nothing else; anything else throws
\* boost::bad_lexical_cast (ok = FALSE).
IsDigit(c) == \E i \in 1..10 : DigitChars[i] = c

DigitVal(c) == (CHOOSE i \in 1..10 : DigitChars[i] = c) - 1

RECURSIVE DigitsVal(_, _)
DigitsVal(ds, acc) ==
  IF ds = <<>> THEN acc
  ELSE DigitsVal(Tail(ds), acc * 10 + DigitVal(Head(ds)))

lexical_cast_int(str) ==
  LET signed == str # <<>> /\ Head(str) \in {"-", "+"}
      ds == IF signed THEN Tail(str) ELSE str
      good == ds # <<>> /\ \A i \in 1..Len(ds) : IsDigit(ds[i])
  IN  IF ~good THEN [ok |-> FALSE, val |-> 0]
      ELSE [ok |-> TRUE,
            val |-> IF signed /\ Head(str) = "-"
                    THEN 0 - DigitsVal(ds, 0) ELSE DigitsVal(ds, 0)]

\* rtrim(str, ws): erase everything after the last byte that is not in ws
\* (find_last_not_of gives npos, and erase(0) empties, when all are in ws).
rtrim(str, ws) ==
  LET keep == {i \in 1..Len(str) : str[i] \notin ws}
      pos == IF keep = {} THEN 0
             ELSE CHOOSE i \in keep : \A j \in keep : j <= i
  IN  SubSeq(str, 1, pos)

\* ------------------------------------------------------------------ makecmd
\* makecmd::append
append(lines, param) == Append(lines, param)

\* makecmd::makecmd(cmd_name)
makecmd(cmd_name) == append(<<>>, cmd_name)

\* makecmd::operator<<(const std::string &)
shl_string(lines, datum) == append(lines, datum)

\* makecmd::operator<<(T const &), T integral
shl_int(lines, datum) == append(lines, lexical_cast_string(datum))

\* makecmd::operator<<(const std::vector<std::string> &)
shl_vector(lines, data) == lines \o data

\* makecmd::operator std::string: the loop body for lines_[i]
makecmd_param(param) ==
  <<REDIS_PREFIX_SINGLE_BULK_REPLY>> \o lexical_cast_string(Len(param))
    \o REDIS_LBR \o param \o REDIS_LBR

\* A plausible slip: the header counts the arguments but not the name.
makecmd_str_short_count(lines) ==
  <<REDIS_PREFIX_MULTI_BULK_REPLY>> \o lexical_cast_string(Len(lines) - 1)
    \o REDIS_LBR
    \o Flatten([i \in 1..Len(lines) |-> makecmd_param(lines[i])])

\* makecmd::operator std::string
makecmd_str(lines) ==
  <<REDIS_PREFIX_MULTI_BULK_REPLY>> \o lexical_cast_string(Len(lines))
    \o REDIS_LBR
    \o Flatten([i \in 1..Len(lines) |-> makecmd_param(lines[i])])

\* ------------------------------------------------------------------ readers
\* What a reader or decoder hands back: err is "none" or the exception
\* that left it, with its message (what: the literal the code throws with;
\* text: the bytes of a message taken from the reply); n, s, l and set
\* carry an integer, a string, a string vector and a string set; rest is
\* what remains unread on the socket.
Ret(n, s, l, rest) ==
  [err |-> "none", what |-> "", text |-> <<>>,
   n |-> n, s |-> s, l |-> l, set |-> {}, rest |-> rest]

\* throw kind(what)
Throw(kind, what, rest) ==
  [err |-> kind, what |-> what, text |-> <<>>,
   n |-> 0, s |-> <<>>, l |-> <<>>, set |-> {}, rest |-> rest]

\* throw kind(text), text a string computed from the reply
ThrowText(kind, text, rest) ==
  [err |-> kind, what |-> "", text |-> text,
   n |-> 0, s |-> <<>>, l |-> <<>>, set |-> {}, rest |-> rest]

\* memchr(buffer, '\n', bytes_received): index of the first LF, 0 for NULL
memchr_lf(buf) ==
  LET hits == {i \in 1..Len(buf) : buf[i] = LF}
  IN  IF hits = {} THEN 0 ELSE CHOOSE i \in hits : \A j \in hits : i <= j

\* read_line's loop on a socket whose peer has sent `in` and then closes:
\* each round peeks at up to buffer_size bytes, copies up to the first LF
\* (or the whole window) and removes exactly what it copied.
\* total_bytes_read is never advanced by the loop body.
RECURSIVE read_line_loop(_, _, _, _)
read_line_loop(in, oss, total_bytes_read, max_size) ==
  IF ~(total_bytes_read < max_size) THEN Ret(0, oss, <<>>, in)
  ELSE
    LET bytes_received == Min(buffer_size, Len(in))
        buffer == SubSeq(in, 1, bytes_received)
        eol == memchr_lf(buffer)
        to_read == IF eol # 0 THEN eol ELSE bytes_received
    IN  IF bytes_received = 0
        THEN Throw("connection_error", "connection was closed", in)
        ELSE IF eol # 0
        THEN Ret(0, oss \o SubSeq(buffer, 1, to_read), <<>>,
                 SubSeq(in, to_read + 1, Len(in)))
        ELSE read_line_loop(SubSeq(in, to_read + 1, Len(in)),
                            oss \o buffer, total_bytes_read, max_size)

\* read_line's last statement: rtrim(line, REDIS_LBR)
read_line_trim(r) ==
  IF r.err # "none" THEN r ELSE Ret(0, rtrim(r.s, {CR, LF}), <<>>, r.rest)

\* read_line(socket, max_size)
read_line(in, max_size) ==
  read_line_trim(read_line_loop(in, <<>>, 0, max_size))

\* read_n's loop: recv until bytes_read = n; a recv of 0 bytes is a closed
\* connection.
RECURSIVE read_n_loop(_, _, _)
read_n_loop(in, buffer, n) ==
  IF Len(buffer) = n THEN Ret(0, buffer, <<>>, in)
  ELSE IF Len(in) = 0
  THEN Throw("connection_error", "connection was closed", in)
  ELSE read_n_loop(SubSeq(in, Min(n - Len(buffer), Len(in)) + 1, Len(in)),
                   buffer \o SubSeq(in, 1, Min(n - Len(buffer), Len(in))),
                   n)

\* read_n(socket, n).  new char[n + 1] with n + 1 < 0 asks for more than can
\* be allocated and throws std::bad_alloc.  With n = -1 the array has no
\* element, buffer[n] = '\0' is a store in front of it, and the loop asks
\* recv for (size_t)-1 bytes and cannot reach bytes_read == n: undefined.
read_n(in, n) ==
  IF n + 1 < 0 THEN Throw("bad_alloc", "std::bad_alloc", in)
  ELSE IF n < 0 THEN Throw("undefined", "", in)
  ELSE read_n_loop(in, <<>>, n)

\* ----------------------------------------------------------------- decoders
\* Each decoder is written as the code runs it: the reader's result r (or
\* the header h, the data d, the element e) is handed to the checks that
\* follow the read.

\* recv_single_line_reply_ on a line that starts with "-ERR ": error_msg is
\* the rest of the line
error_reply_thrown(error_msg, rest) ==
  IF error_msg = <<>> THEN Throw("protocol_error", "unknown error", rest)
  ELSE ThrowText("protocol_error", error_msg, rest)

\* recv_single_line_reply_ after its read_line
single_line_checks(r) ==
  IF r.err # "none" THEN r
  ELSE IF r.s = <<>>
  THEN Throw("protocol_error", "empty single line reply", r.rest)
  ELSE IF StartsWith(r.s, REDIS_PREFIX_STATUS_REPLY_ERROR)
  THEN error_reply_thrown(
         SubSeq(r.s, Len(REDIS_PREFIX_STATUS_REPLY_ERROR) + 1, Len(r.s)),
         r.rest)
  ELSE IF r.s[1] # REDIS_PREFIX_STATUS_REPLY_VALUE
  THEN Throw("protocol_error", "unexpected prefix for status reply", r.rest)
  ELSE Ret(0, Tail(r.s), <<>>, r.rest)

\* base_client::recv_single_line_reply_
recv_single_line_reply_(in) ==
  single_line_checks(read_line(in, default_max_size))

\* A plausible slip: a status text that begins with OK is taken for OK.
ok_check_prefix(r) ==
  IF r.err # "none" THEN r
  ELSE IF ~StartsWith(r.s, REDIS_STATUS_REPLY_OK)
  THEN Throw("protocol_error", "expected OK response", r.rest)
  ELSE Ret(0, <<>>, <<>>, r.rest)

\* recv_ok_reply_ after recv_single_line_reply_
ok_check(r) ==
  IF r.err # "none" THEN r
  ELSE IF r.s # REDIS_STATUS_REPLY_OK
  THEN Throw("protocol_error", "expected OK response", r.rest)
  ELSE Ret(0, <<>>, <<>>, r.rest)

\* base_client::recv_ok_reply_
recv_ok_reply_(in) == ok_check(recv_single_line_reply_(in))

\* the lexical_cast<int_type>(line.substr(1)) that ends a header decoder
header_value(parsed, rest) ==
  IF ~parsed.ok
  THEN Throw("bad_lexical_cast",
             "bad lexical cast: source type value could not be interpreted as target",
             rest)
  ELSE Ret(parsed.val, <<>>, <<>>, rest)

\* A plausible slip: the first byte is dropped without being compared.
bulk_prefix_unchecked(r, prefix) ==
  IF r.err # "none" THEN r
  ELSE IF r.s = <<>>
  THEN Throw("protocol_error", "unexpected prefix for bulk reply", r.rest)
  ELSE header_value(lexical_cast_int(Tail(r.s)), r.rest)

\* recv_bulk_reply_(int socket, char prefix) after its read_line.
\* line[0] of an empty line is '\0', which is no prefix.
bulk_prefix_checks(r, prefix) ==
  IF r.err # "none" THEN r
  ELSE IF r.s = <<>> \/ r.s[1] # prefix
  THEN Throw("protocol_error", "unexpected prefix for bulk reply", r.rest)
  ELSE header_value(lexical_cast_int(Tail(r.s)), r.rest)

\* base_client::recv_bulk_reply_(int socket, char prefix): the header line
\* of a bulk or multi-bulk reply
recv_bulk_reply_prefix_(in, prefix) ==
  bulk_prefix_checks(read_line(in, default_max_size), prefix)

\* recv_bulk_reply_ after read_n: the checks and data.erase(size - 2)
bulk_data(d, real_length) ==
  IF d.err # "none" THEN d
  ELSE IF d.s = <<>>
  THEN Throw("protocol_error", "invalid bulk reply data; empty", d.rest)
  ELSE IF Len(d.s) # real_length
  THEN Throw("protocol_error",
             "invalid bulk reply data; data of unexpected length", d.rest)
  ELSE Ret(0, SubSeq(d.s, 1, Len(d.s) - 2), <<>>, d.rest)

\* A plausible slip: a length of -1 is not singled out and goes to read_n.
bulk_payload_nil_as_length(h) ==
  IF h.err # "none" THEN h
  ELSE bulk_data(read_n(h.rest, h.n + 2), h.n + 2)

\* A plausible slip: only the payload is read, its CRLF stays on the socket.
bulk_payload_no_crlf(h) ==
  IF h.err # "none" THEN h
  ELSE IF h.n = -1 THEN Ret(0, missing_value, <<>>, h.rest)
  ELSE read_n(h.rest, h.n)

\* recv_bulk_reply_ after the header: length and real_length = length + 2
bulk_payload(h) ==
  IF h.err # "none" THEN h
  ELSE IF h.n = -1 THEN Ret(0, missing_value, <<>>, h.rest)
  ELSE bulk_data(read_n(h.rest, h.n + 2), h.n + 2)

\* base_client::recv_bulk_reply_(int socket)
recv_bulk_reply_(in) ==
  bulk_payload(recv_bulk_reply_prefix_(in, REDIS_PREFIX_SINGLE_BULK_REPLY))

\* The element loop of recv_multi_bulk_reply_(int, string_vector &): out is
\* the caller's vector, which keeps what was pushed when an element throws.
RECURSIVE multi_bulk_loop(_, _, _, _)
RECURSIVE multi_bulk_push(_, _, _, _)

\* A plausible slip: each element goes to the front of the vector.
multi_bulk_push_front(e, i, length, out) ==
  IF e.err # "none" THEN [e EXCEPT !.l = out]
  ELSE multi_bulk_loop(e.rest, i + 1, length, <<e.s>> \o out)

multi_bulk_push(e, i, length, out) ==
  IF e.err # "none" THEN [e EXCEPT !.l = out]
  ELSE multi_bulk_loop(e.rest, i + 1, length, Append(out, e.s))

multi_bulk_loop(in, i, length, out) ==
  IF ~(i < length) THEN Ret(length, <<>>, out, in)
  ELSE multi_bulk_push(recv_bulk_reply_(in), i, length, out)

\* A plausible slip: a count of -1 is reported like any malformed reply.
multi_bulk_elems_no_key_error(h, out) ==
  IF h.err # "none" THEN [h EXCEPT !.l = out]
  ELSE IF h.n = -1
  THEN [Throw("protocol_error", "no such key", h.rest) EXCEPT !.l = out]
  ELSE multi_bulk_loop(h.rest, 0, h.n, out)

\* A plausible slip: the element loop starts at 1 and reads one too few.
multi_bulk_elems_short(h, out) ==
  IF h.err # "none" THEN [h EXCEPT !.l = out]
  ELSE IF h.n = -1
  THEN [Throw("key_error", "no such key", h.rest) EXCEPT !.l = out]
  ELSE multi_bulk_loop(h.rest, 1, h.n, out)

\* recv_multi_bulk_reply_(int, string_vector &) after the header.
\* out.reserve(out.size() + length) with a negative sum asks for more than
\* max_size() elements and throws std::length_error.
multi_bulk_elems(h, out) ==
  IF h.err # "none" THEN [h EXCEPT !.l = out]
  ELSE IF h.n = -1
  THEN [Throw("key_error", "no such key", h.rest) EXCEPT !.l = out]
  ELSE IF Len(out) + h.n < 0
  THEN [Throw("length_error", "vector::reserve", h.rest) EXCEPT !.l = out]
  ELSE multi_bulk_loop(h.rest, 0, h.n, out)

\* base_client::recv_multi_bulk_reply_(int socket, string_vector & out)
recv_multi_bulk_reply_(in, out) ==
  multi_bulk_elems(
    recv_bulk_reply_prefix_(in, REDIS_PREFIX_MULTI_BULK_REPLY), out)

\* The element loop of recv_multi_bulk_reply_(int, string_set &)
RECURSIVE multi_bulk_set_loop(_, _, _, _)
RECURSIVE multi_bulk_insert(_, _, _, _)

\* A plausible slip: the set is started afresh with each element.
multi_bulk_insert_fresh(e, i, length, out) ==
  IF e.err # "none" THEN [e EXCEPT !.set = out]
  ELSE multi_bulk_set_loop(e.rest, i + 1, length, {e.s})

multi_bulk_insert(e, i, length, out) ==
  IF e.err # "none" THEN [e EXCEPT !.set = out]
  ELSE multi_bulk_set_loop(e.rest, i + 1, length, out \cup {e.s})

multi_bulk_set_loop(in, i, length, out) ==
  IF ~(i < length) THEN [Ret(length, <<>>, <<>>, in) EXCEPT !.set = out]
  ELSE multi_bulk_insert(recv_bulk_reply_(in), i, length, out)

\* recv_multi_bulk_reply_(int, string_set &) after the header
multi_bulk_set_elems(h, out) ==
  IF h.err # "none" THEN [h EXCEPT !.set = out]
  ELSE IF h.n = -1
  THEN [Throw("key_error", "no such key", h.rest) EXCEPT !.set = out]
  ELSE multi_bulk_set_loop(h.rest, 0, h.n, out)

\* base_client::recv_multi_bulk_reply_(int socket, string_set & out)
recv_multi_bulk_reply_set_(in, out) ==
  multi_bulk_set_elems(
    recv_bulk_reply_prefix_(in, REDIS_PREFIX_MULTI_BULK_REPLY), out)

\* recv_int_reply_ after its read_line
int_checks(r) ==
  IF r.err # "none" THEN r
  ELSE IF r.s = <<>>
  THEN Throw("protocol_error", "invalid integer reply; empty", r.rest)
  ELSE IF r.s[1] # REDIS_PREFIX_INT_REPLY
  THEN Throw("protocol_error", "unexpected prefix for integer reply", r.rest)
  ELSE header_value(lexical_cast_int(Tail(r.s)), r.rest)

\* base_client::recv_int_reply_
recv_int_reply_(in) == int_checks(read_line(in, default_max_size))

\* recv_int_ok_reply_ after recv_int_reply_
int_ok_check(r) ==
  IF r.err # "none" THEN r
  ELSE IF r.n # 1
  THEN Throw("protocol_error", "expecting int reply of 1", r.rest)
  ELSE Ret(0, <<>>, <<>>, r.rest)

\* base_client::recv_int_ok_reply_
recv_int_ok_reply_(in) == int_ok_check(recv_int_reply_(in))

\* ------------------------------------------------------------------- state
\* makecmd: lines_ is the command under construction, bytes its serialized
\* form once operator std::string has run; built lists what the caller has
\* handed to the constructor and to operator<<, element by element.
\* reply is what the last decoder call returned, bulkin the payload and the
\* following bytes of the bulk reply it was fed.
\* base_client: connections_ is the connection set; inbox[fd] holds the
\* bytes the server on fd has sent and the client has not consumed; closed
\* holds the sockets whose peer has closed; last records the operation that
\* has just returned or thrown (NoOp once the caller has looked at it);
\* routed remembers the connection index each key was first routed to.
\* Decoders on their own: fed is the decoder called, the caller's container
\* and the bytes on the socket; got is what the call handed back.
\* Readers, one recv at a time: sock is the socket (data: the bytes the peer
\* sends that no recv has removed yet; fin: the peer closes after them;
\* signals and faults: how many more recv calls on it will return -1 with
\* EINTR and with another errno);
\* reader holds the locals of the read_line or read_n call in progress.
VARIABLES lines_, built, cphase, bytes, reply, bulkin,
          connections_, inbox, closed, last, routed,
          fed, got, sock, reader,
          supplied, ctor, key_

codecVars == <<lines_, built, cphase, bytes, reply, bulkin>>

clientVars == <<connections_, inbox, closed, last, routed>>

decoderVars == <<fed, got>>

readerVars == <<sock, reader>>

\* the endpoints handed to the constructor and the constructor's progress
ctorVars == <<supplied, ctor>>

\* shared_value: key_ is the name of the key the object stands for
valueVars == <<key_>>

\* what the client's operations, the codec's steps, the decoder calls and
\* the readers' steps leave alone
notClient == <<codecVars, decoderVars, readerVars, ctorVars, valueVars>>

notCodec == <<clientVars, decoderVars, readerVars, ctorVars, valueVars>>

notDecoder == <<codecVars, clientVars, readerVars, ctorVars, valueVars>>

notReader == <<codecVars, clientVars, decoderVars, ctorVars, valueVars>>

notCtor == <<codecVars, decoderVars, readerVars, valueVars>>

vars == <<lines_, built, cphase, bytes, reply, bulkin,
          connections_, inbox, closed, last, routed,
          fed, got, sock, reader,
          supplied, ctor, key_>>

NoReply == Throw("unset", "", <<>>)

NoOp ==
  [op |-> "none", keys |-> <<>>, err |-> "none", log |-> <<>>,
   route |-> <<>>, n |-> 0, s |-> <<>>, l |-> <<>>, set |-> {}, acc |-> 0,
   out |-> <<>>]

CodecIdle ==
  /\ lines_ = <<>>
  /\ built = <<>>
  /\ cphase = "idle"
  /\ bytes = <<>>
  /\ reply = NoReply
  /\ bulkin = [payload |-> <<>>, tail |-> <<>>]

\* no constructor has been called: con is the constructor's local
\* connection_data, met what each endpoint's server did, log the writes
\* and reads of init
NoCtor ==
  [form |-> "none", pc |-> "idle", i |-> 0,
   con |-> [host |-> "", port |-> 0, dbindex |-> 0, socket |-> ANET_ERR],
   err |-> "none", met |-> <<>>, log |-> <<>>]

\* no shared_value has been constructed
NoKey == <<>>

ClientAbsent ==
  /\ key_ = NoKey
  /\ connections_ = <<>>
  /\ inbox = <<>>
  /\ closed = {}
  /\ last = NoOp
  /\ routed = <<>>
  /\ supplied = <<>>
  /\ ctor = NoCtor

NotFed ==
  [decoder |-> "none", out |-> <<>>, outset |-> {}, head |-> <<>>,
   tail |-> <<>>]

DecoderIdle ==
  /\ fed = NotFed
  /\ got = NoReply

NoSocket == [data |-> <<>>, fin |-> FALSE, signals |-> 0, faults |-> 0]

\* No call in progress.  fn is the function called, pc the statement it is
\* at; max_size and n are its arguments; oss, total_bytes_read,
\* found_delimiter, bytes_received and to_read are read_line's locals;
\* buffer, bytes_read and bp (as an offset into buffer) are read_n's; err,
\* what and line are the exception or the string the call ended with.
\* stream remembers what the socket held at the call; interrupted and failed
\* count the recv calls that returned -1 with EINTR and with another errno;
\* lost tells that a recv returned 0 or failed before read_line had found
\* an LF, or during read_n.
NoCall ==
  [fn |-> "none", pc |-> "idle", max_size |-> 0, n |-> 0,
   oss |-> <<>>, total_bytes_read |-> 0, found_delimiter |-> FALSE,
   bytes_received |-> 0, to_read |-> 0,
   buffer |-> <<>>, bytes_read |-> 0, bp |-> 0,
   err |-> "none", what |-> "", line |-> <<>>,
   stream |-> <<>>, interrupted |-> 0, failed |-> 0, lost |-> FALSE]

ReaderIdle ==
  /\ sock = NoSocket
  /\ reader = NoCall

\* ------------------------------------------------------- the codec's inputs
CmdNames == {<<"S", "E", "T">>, <<"G", "E", "T">>}

\* argument values: empty, one byte, a bare CRLF, text, a 19-byte value
ArgValues ==
  {<<>>, <<"a">>, <<CR, LF>>, <<"f", "o", "o">>, <<"b", "a", "r">>,
   missing_value}

ArgInts == {-1, 10}

PayloadBytes == {"a", CR, LF, "$", "1"}

Payloads == UNION {[1..k -> PayloadBytes] : k \in 0..MaxLen}

\* what may follow a reply on the same socket
Tails == {<<>>, <<":", "1", CR, LF>>, <<CR, LF>>, <<"$">>}

SeqsUpTo(S, k) == UNION {[1..j -> S] : j \in 0..k}

\* the server's bulk reply for a present value: $<len>\r\n<bytes>\r\n
bulk_reply(payload) ==
  <<"$">> \o lexical_cast_string(Len(payload)) \o <<CR, LF>>
    \o payload \o <<CR, LF>>

\* ------------------------------------------------------- the codec's steps
\* makecmd m(cmd_name)
NewCommand(name) ==
  /\ cphase = "idle"
  /\ lines_' = makecmd(name)
  /\ built' = <<name>>
  /\ cphase' = "building"
  /\ UNCHANGED <<bytes, reply, bulkin>>

\* m << datum, a string
AppendString(datum) ==
  /\ cphase = "building"
  /\ Len(lines_) <= MaxArgs
  /\ lines_' = shl_string(lines_, datum)
  /\ built' = Append(built, datum)
  /\ UNCHANGED <<cphase, bytes, reply, bulkin>>

\* m << datum, an integer
AppendInt(datum) ==
  /\ cphase = "building"
  /\ Len(lines_) <= MaxArgs
  /\ lines_' = shl_int(lines_, datum)
  /\ built' = Append(built, lexical_cast_string(datum))
  /\ UNCHANGED <<cphase, bytes, reply, bulkin>>

\* m << data, a vector of strings
AppendVector(data) ==
  /\ cphase = "building"
  /\ Len(lines_) + Len(data) <= MaxArgs + 1
  /\ lines_' = shl_vector(lines_, data)
  /\ built' = built \o data
  /\ UNCHANGED <<cphase, bytes, reply, bulkin>>

\* std::string(m)
Serialize ==
  /\ cphase = "building"
  /\ bytes' = makecmd_str(lines_)
  /\ cphase' = "serialized"
  /\ UNCHANGED <<lines_, built, reply, bulkin>>

\* the serialized command, followed by tail, read back as a multi-bulk reply
DecodeCommand(tail) ==
  /\ cphase = "serialized"
  /\ reply' = recv_multi_bulk_reply_(bytes \o tail, <<>>)
  /\ bulkin' = [payload |-> <<>>, tail |-> tail]
  /\ cphase' = "decoded"
  /\ UNCHANGED <<lines_, built, bytes>>

\* a bulk reply carrying payload, followed by tail, read by recv_bulk_reply_
DecodeBulk(payload, tail) ==
  /\ cphase = "idle"
  /\ reply' = recv_bulk_reply_(bulk_reply(payload) \o tail)
  /\ bulkin' = [payload |-> payload, tail |-> tail]
  /\ cphase' = "bulk"
  /\ UNCHANGED <<lines_, built, bytes>>

CodecInit == CodecIdle /\ ClientAbsent /\ DecoderIdle /\ ReaderIdle

CodecNext ==
  \/ \E name \in CmdNames : NewCommand(name) /\ UNCHANGED notCodec
  \/ \E datum \in ArgValues : AppendString(datum) /\ UNCHANGED notCodec
  \/ \E datum \in ArgInts : AppendInt(datum) /\ UNCHANGED notCodec
  \/ \E data \in SeqsUpTo(ArgValues, MaxArgs) :
       AppendVector(data) /\ UNCHANGED notCodec
  \/ Serialize /\ UNCHANGED notCodec
  \/ \E tail \in Tails : DecodeCommand(tail) /\ UNCHANGED notCodec
  \/ \E payload \in Payloads, tail \in Tails :
       DecodeBulk(payload, tail) /\ UNCHANGED notCodec

SpecCodec == CodecInit /\ [][CodecNext]_vars

\* ------------------------------------------------------------ the server
\* What a server writes back, in the reply formats of the protocol.
status_reply(text) == <<"+">> \o text \o <<CR, LF>>

error_reply == REDIS_PREFIX_STATUS_REPLY_ERROR \o <<"x", CR, LF>>

int_reply(n) == <<":">> \o lexical_cast_string(n) \o <<CR, LF>>

nil_bulk == <<"$", "-", "1", CR, LF>>

nil_multi_bulk == <<"*", "-", "1", CR, LF>>

multi_bulk_reply(elems) ==
  <<"*">> \o lexical_cast_string(Len(elems)) \o <<CR, LF>>
    \o Flatten([i \in 1..Len(elems) |-> bulk_reply(elems[i])])

RECURSIVE Repeat(_, _)
Repeat(str, k) == IF k <= 0 THEN <<>> ELSE str \o Repeat(str, k - 1)

Value == <<"v">>

OkAnswers == {status_reply(REDIS_STATUS_REPLY_OK), error_reply}

IntAnswers == {int_reply(1), int_reply(0), error_reply}

BulkAnswers == {bulk_reply(Value), nil_bulk, error_reply}

MultiAnswers == {multi_bulk_reply(<<Value>>), nil_multi_bulk, error_reply}

\* BLPOP and BRPOP answer with the key and the value popped, with *-1 when
\* the timeout passes, or (no server does) with an empty multi-bulk
PopAnswers(key) ==
  {multi_bulk_reply(<<key, Value>>), nil_multi_bulk, multi_bulk_reply(<<>>)}

StoreAnswers == {int_reply(1), error_reply}

\* LREM: the counts asked for (negative: from the tail; 0: every match) and
\* the number of elements the server reports as removed
LremCounts == {-1, 0, 2}

LremAnswers == {int_reply(0), int_reply(1), int_reply(2)}

\* MSETNX answers with an integer
MsetnxAnswers == {int_reply(1), status_reply(REDIS_STATUS_REPLY_OK)}

\* MSET followed by count EXPIREs: all accepted ("ok"), MSET refused
\* ("refused"), or the first EXPIRE answering 0 ("unset")
MsetexModes == {"ok", "refused", "unset"}

MsetexAnswer(mode, count) ==
  CASE mode = "ok" ->
         status_reply(REDIS_STATUS_REPLY_OK) \o Repeat(int_reply(1), count)
    [] mode = "refused" -> error_reply \o Repeat(int_reply(0), count)
    [] OTHER ->
         status_reply(REDIS_STATUS_REPLY_OK) \o int_reply(0)
           \o Repeat(int_reply(1), count - 1)

\* MGET: one element per key (the key's own name, or the missing bulk for
\* the absent key), or an error
MgetModes == {"values", "error"}

\* what the servers hold: the key b is absent, every other key holds its
\* own name
AbsentKey == <<"b">>

MgetAnswer(mode, keys) ==
  IF mode = "values"
  THEN <<"*">> \o lexical_cast_string(Len(keys)) \o <<CR, LF>>
         \o Flatten([i \in 1..Len(keys) |->
                       IF keys[i] = AbsentKey THEN nil_bulk
                       ELSE bulk_reply(keys[i])])
  ELSE error_reply

\* ------------------------------------------------------------------- router
\* bounds: connections, keys per key list, unread bytes at which the caller
\* still starts an operation
MaxConns == 2
MaxKeys == 2
MaxUnread == 5

Keys == {<<"a">>, <<"b">>, <<"c">>}

KeyLists == UNION {[1..k -> Keys] : k \in 1..MaxKeys}

PairLists == UNION {[1..k -> Keys \X {Value}] : k \in 1..MaxKeys}

Sockets == {connections_[i].socket : i \in 1..Len(connections_)}

CharCode(c) ==
  CASE c = "a" -> 97 [] c = "b" -> 98 [] c = "c" -> 99 [] OTHER -> 0

\* boost::hash<std::string>: Boost is no part of this repository and its
\* hash differs between releases; the model fixes one function of the
\* key's bytes, folded at HashModulus.
HashModulus == 65536

RECURSIVE hash_range(_, _)
hash_range(seed, str) ==
  IF str = <<>> THEN seed
  ELSE hash_range((seed * 31 + CharCode(Head(str))) % HashModulus, Tail(str))

boost_hash(key) == hash_range(0, key)

\* A plausible slip: an inclusive upper bound, as in uniform_int(0, size).
default_hasher_inclusive(key, connections) ==
  boost_hash(key) % (Len(connections) + 1)

\* default_hasher::operator()
default_hasher(key, connections) == boost_hash(key) % Len(connections)

\* connections_[idx]: an index past the end is undefined behaviour
connection_at(idx, hashed) ==
  IF idx < Len(connections_)
  THEN [err |-> "none", socket |-> connections_[idx + 1].socket,
        idx |-> idx, hashed |-> hashed]
  ELSE [err |-> "undefined", socket |-> -1, idx |-> idx, hashed |-> hashed]

\* A plausible slip: the single-connection shortcut is missing.
get_socket_always_hash(key) ==
  connection_at(default_hasher(key, connections_), 1)

\* base_client::get_socket(const string_type & key)
get_socket(key) ==
  IF Len(connections_) = 1 THEN connection_at(0, 0)
  ELSE connection_at(default_hasher(key, connections_), 1)

\* ------------------------------------------------- one operation's progress
\* ctx is the operation in flight: the sockets' unread bytes, the events so
\* far (each send with the bytes written and the number of commands in
\* them, each decoder call), the get_socket calls made, the exception that
\* ended it, and the values it holds (socket: the last get_socket result;
\* n, s, l, set: the last decoder result; acc: an accumulator; cmds: the
\* per-socket commands of a fan-out).
Begin ==
  [inbox |-> inbox, closed |-> closed, log |-> <<>>, err |-> "none",
   route |-> <<>>, socket |-> -1, n |-> 0, s |-> <<>>, l |-> <<>>,
   set |-> {}, acc |-> 0, out |-> <<>>, cmds |-> <<>>]

Event(ev, socket, msg, cmds, unread) ==
  [ev |-> ev, socket |-> socket, msg |-> msg, cmds |-> cmds,
   unread |-> unread]

\* throw from the operation itself
throw(ctx, kind) == IF ctx.err # "none" THEN ctx ELSE [ctx EXCEPT !.err = kind]

\* int socket = get_socket(key), with g its result
route_to(ctx, key, g) ==
  [ctx EXCEPT !.route = Append(@, [key |-> key, idx |-> g.idx,
                                   socket |-> g.socket, hashed |-> g.hashed]),
              !.socket = g.socket,
              !.err = g.err]

route_key(ctx, key) ==
  IF ctx.err # "none" THEN ctx ELSE route_to(ctx, key, get_socket(key))

\* get_socket(keys)'s loop body for keys[i]: the comparison with the socket
\* of the key before
RECURSIVE get_socket_keys_loop(_, _, _)
get_socket_keys_check(ctx, socket, keys, i) ==
  IF ctx.err # "none" THEN ctx
  ELSE IF i > 1 /\ socket # ctx.socket THEN throw(ctx, "runtime_error")
  ELSE get_socket_keys_loop(ctx, keys, i + 1)

get_socket_keys_loop(ctx, keys, i) ==
  IF i > Len(keys) THEN ctx
  ELSE get_socket_keys_check(route_key(ctx, keys[i]), ctx.socket, keys, i)

\* A plausible slip: the keys are never routed, the first one decides.
get_socket_keys_first_only(ctx, keys) ==
  IF ctx.err # "none" THEN ctx ELSE route_key(ctx, keys[1])

\* base_client::get_socket(const string_vector & keys); keys is not empty
\* (assert)
get_socket_keys(ctx, keys) ==
  IF ctx.err # "none" THEN ctx
  ELSE get_socket_keys_loop([ctx EXCEPT !.socket = -1], keys, 1)

\* if (a != b) throw std::runtime_error(...)
same_socket(ctx, a, b) ==
  IF ctx.err = "none" /\ a # b THEN throw(ctx, "runtime_error") ELSE ctx

\* A plausible slip: the guard is missing.
single_connection_only_unguarded(ctx) == ctx

\* if (connections_.size() > 1) throw std::runtime_error(...)
single_connection_only(ctx) ==
  IF Len(connections_) > 1 THEN throw(ctx, "runtime_error") ELSE ctx

\* what stands for the answer when anetWrite returns -1: the peer is gone
\* and the kernel refuses the bytes (SIGPIPE ignored, errno EPIPE)
EPIPE == <<"EPIPE">>

\* A plausible slip: the result of anetWrite is not looked at.
send_unchecked(ctx, socket, msg, ncmds, answer) ==
  IF ctx.err # "none" THEN ctx
  ELSE IF answer = EPIPE
  THEN [ctx EXCEPT
          !.log = Append(@, [ev |-> "fail", socket |-> socket, msg |-> msg,
                             cmds |-> ncmds,
                             unread |-> Len(ctx.inbox[socket])])]
  ELSE [ctx EXCEPT
          !.log = Append(@, [ev |-> "send", socket |-> socket, msg |-> msg,
                             cmds |-> ncmds,
                             unread |-> Len(ctx.inbox[socket])]),
          !.inbox[socket] = @ \o answer]

\* base_client::send_: msg, holding ncmds commands, is written to socket.
\* if (anetWrite(...) == -1) throw connection_error(strerror(errno));
\* otherwise the server's answer arrives behind what is still unread (a
\* peer that is gone answers nothing).
send_(ctx, socket, msg, ncmds, answer) ==
  IF ctx.err # "none" THEN ctx
  ELSE IF answer = EPIPE
  THEN [ctx EXCEPT
          !.log = Append(@, Event("fail", socket, msg, ncmds,
                                  Len(ctx.inbox[socket]))),
          !.err = "connection_error"]
  ELSE [ctx EXCEPT
          !.log = Append(@, Event("send", socket, msg, ncmds,
                                  Len(ctx.inbox[socket]))),
          !.inbox[socket] = @ \o answer]

\* the peer closes socket after it has answered
peer_closes(ctx, socket) ==
  IF ctx.err # "none" THEN ctx ELSE [ctx EXCEPT !.closed = @ \cup {socket}]

\* A decoder has run on socket and returned r. A decoder that finds no
\* more bytes on an open socket never returns ("blocked").
decoded(ctx, socket, r) ==
  [ctx EXCEPT
     !.log = Append(@, Event("recv", socket, <<>>, 0,
                             Len(ctx.inbox[socket]))),
     !.inbox[socket] = r.rest,
     !.err = IF r.err = "connection_error" /\ socket \notin ctx.closed
             THEN "blocked" ELSE r.err,
     !.n = r.n, !.s = r.s, !.l = r.l, !.set = r.set]

recv_ok(ctx, socket) ==
  IF ctx.err # "none" THEN ctx
  ELSE decoded(ctx, socket, recv_ok_reply_(ctx.inbox[socket]))

recv_line(ctx, socket) ==
  IF ctx.err # "none" THEN ctx
  ELSE decoded(ctx, socket, recv_single_line_reply_(ctx.inbox[socket]))

recv_int(ctx, socket) ==
  IF ctx.err # "none" THEN ctx
  ELSE decoded(ctx, socket, recv_int_reply_(ctx.inbox[socket]))

recv_int_ok(ctx, socket) ==
  IF ctx.err # "none" THEN ctx
  ELSE decoded(ctx, socket, recv_int_ok_reply_(ctx.inbox[socket]))

recv_bulk(ctx, socket) ==
  IF ctx.err # "none" THEN ctx
  ELSE decoded(ctx, socket, recv_bulk_reply_(ctx.inbox[socket]))

recv_multi_bulk(ctx, socket, out) ==
  IF ctx.err # "none" THEN ctx
  ELSE decoded(ctx, socket, recv_multi_bulk_reply_(ctx.inbox[socket], out))

recv_multi_bulk_set(ctx, socket, out) ==
  IF ctx.err # "none" THEN ctx
  ELSE decoded(ctx, socket,
               recv_multi_bulk_reply_set_(ctx.inbox[socket], out))

\* the caller catches connection_error (shutdown)
catch_connection_error(ctx) ==
  IF ctx.err = "connection_error" THEN [ctx EXCEPT !.err = "none"] ELSE ctx

\* The caller starts an operation on a constructed client, not with more
\* than MaxUnread bytes lying unread; Ready: and with every server up.
RECURSIVE SumLen(_, _)
SumLen(f, S) ==
  IF S = {} THEN 0
  ELSE LET x == CHOOSE y \in S : TRUE IN Len(f[x]) + SumLen(f, S \ {x})

Idle ==
  /\ connections_ # <<>>
  /\ last = NoOp
  /\ SumLen(inbox, Sockets) <= MaxUnread

Ready == Idle /\ closed = {}

\* what a write to socket meets: a server that is up answers with one of A;
\* a peer that is gone either makes the write fail or takes the bytes
\* without answering
AnswersOn(socket, A) == IF socket \in closed THEN {EPIPE, <<>>} ELSE A

AnswersEach(A) ==
  {f \in [Sockets -> A \cup {EPIPE, <<>>}] :
     \A socket \in Sockets : f[socket] \in AnswersOn(socket, A)}

\* the connection each key was first routed to
RECURSIVE remember(_, _)
remember(memo, route) ==
  IF route = <<>> THEN memo
  ELSE remember(IF memo[Head(route).key] = -1
                THEN [memo EXCEPT ![Head(route).key] = Head(route).idx]
                ELSE memo,
                Tail(route))

\* A plausible slip: connections whose peer has closed are dropped.
Return_dropping_closed(op, keys, ctx) ==
  /\ last' = [op |-> op, keys |-> keys, err |-> ctx.err, log |-> ctx.log,
              route |-> ctx.route, n |-> ctx.n, s |-> ctx.s, l |-> ctx.l,
              set |-> ctx.set, acc |-> ctx.acc, out |-> ctx.out]
  /\ inbox' = ctx.inbox
  /\ closed' = ctx.closed
  /\ routed' = routed
  /\ connections_' = SelectSeq(connections_,
                               LAMBDA con : con.socket \notin ctx.closed)

\* The operation op, called with the keys `keys`, returns or throws.
Return(op, keys, ctx) ==
  /\ last' = [op |-> op, keys |-> keys, err |-> ctx.err, log |-> ctx.log,
              route |-> ctx.route, n |-> ctx.n, s |-> ctx.s, l |-> ctx.l,
              set |-> ctx.set, acc |-> ctx.acc, out |-> ctx.out]
  /\ inbox' = ctx.inbox
  /\ closed' = ctx.closed
  /\ routed' = remember(routed, ctx.route)
  /\ UNCHANGED connections_

\* ------------------------------------------------------ single-key operations
\* base_client::set
set(key, value, answer) ==
  /\ Ready
  /\ LET socket == get_socket(key).socket IN
     Return("set", <<key>>,
       recv_ok(send_(route_key(Begin, key), socket,
                     makecmd_str(shl_string(shl_string(makecmd(<<"S", "E", "T">>), key),
                                            value)),
                     1, answer),
               socket))

\* base_client::get
get(key, answer) ==
  /\ Idle
  /\ LET socket == get_socket(key).socket IN
     Return("get", <<key>>,
       recv_bulk(send_(route_key(Begin, key), socket,
                       makecmd_str(shl_string(makecmd(<<"G", "E", "T">>), key)),
                       1, answer),
                 socket))

\* base_client::incr
incr(key, answer) ==
  /\ Ready
  /\ LET socket == get_socket(key).socket IN
     Return("incr", <<key>>,
       recv_int(send_(route_key(Begin, key), socket,
                      makecmd_str(shl_string(makecmd(<<"I", "N", "C", "R">>), key)),
                      1, answer),
                socket))

\* base_client::del
del(key, answer) ==
  /\ Ready
  /\ LET socket == get_socket(key).socket IN
     Return("del", <<key>>,
       recv_int_ok(send_(route_key(Begin, key), socket,
                         makecmd_str(shl_string(makecmd(<<"D", "E", "L">>), key)),
                         1, answer),
                   socket))

\* what connections_[die()] yields when die() is connections_.size(), one
\* past the last element: the read is undefined. The process may crash or
\* do anything ("crash"), the int read may be no open descriptor, so that
\* anetWrite fails ("EBADF"), or it may happen to be a connection's
\* socket ("alias").
PastTheEnd == {"crash", "EBADF", "alias"}

\* randomkey: socket = connections_[0].socket; if (connections_.size() > 1)
\* { boost::uniform_int<> dist(0, connections_.size()); socket =
\* connections_[die()].socket; } -- draw is die(); acc keeps it
random_connection(ctx, draw, outcome, alias) ==
  IF Len(connections_) = 1
  THEN [ctx EXCEPT !.socket = connections_[1].socket, !.acc = 0]
  ELSE IF draw < Len(connections_)
  THEN [ctx EXCEPT !.socket = connections_[draw + 1].socket, !.acc = draw]
  ELSE IF outcome = "crash"
  THEN [ctx EXCEPT !.socket = ANET_ERR, !.acc = draw, !.err = "undefined"]
  ELSE IF outcome = "EBADF"
  THEN [ctx EXCEPT !.socket = ANET_ERR, !.acc = draw,
                   !.err = "connection_error"]
  ELSE [ctx EXCEPT !.socket = alias, !.acc = draw]

\* the socket randomkey writes to, for the caller's choice of the answer
random_socket(draw, alias) ==
  IF Len(connections_) = 1 THEN connections_[1].socket
  ELSE IF draw < Len(connections_) THEN connections_[draw + 1].socket
  ELSE alias

\* randomkey from send_ on
randomkey_exchange(ctx, answer) ==
  IF ctx.err # "none" THEN ctx
  ELSE recv_bulk(send_(ctx, ctx.socket,
                       makecmd_str(makecmd(<<"R", "A", "N", "D", "O", "M", "K", "E", "Y">>)),
                       1, answer),
                 ctx.socket)

\* base_client::randomkey
randomkey(draw, outcome, alias, answer) ==
  /\ Idle
  /\ Return("randomkey", <<>>,
            randomkey_exchange(random_connection(Begin, draw, outcome, alias),
                               answer))
\* the values a shared_int's key may hold: decimal integers, and strings
\* that are none
StoredIntegers == {<<"4", "2">>, <<"-", "7">>, <<"+", "3">>}

StoredOthers == {<<"4", "x">>, <<>>, <<"-">>, <<" ", "7">>}

SharedIntAnswers ==
  {bulk_reply(v) : v \in StoredIntegers \cup StoredOthers}
    \cup {nil_bulk, error_reply}

\* A plausible slip: the conversion error leaves to_int_type as it is.
to_int_type_uncaught(ctx) ==
  IF ctx.err # "none" THEN ctx
  ELSE IF lexical_cast_int(ctx.s).ok
  THEN [ctx EXCEPT !.n = lexical_cast_int(ctx.s).val, !.out = <<ctx.s>>]
  ELSE [ctx EXCEPT !.err = "bad_lexical_cast", !.out = <<ctx.s>>]

\* shared_int::to_int_type: try { return boost::lexical_cast<int_type>(val);
\* } catch (boost::bad_lexical_cast &) { throw value_error(...); }. out
\* keeps the string it was handed.
to_int_type(ctx) ==
  IF ctx.err # "none" THEN ctx
  ELSE IF lexical_cast_int(ctx.s).ok
  THEN [ctx EXCEPT !.n = lexical_cast_int(ctx.s).val, !.out = <<ctx.s>>]
  ELSE [ctx EXCEPT !.err = "value_error", !.out = <<ctx.s>>]

\* shared_int::operator int_type (and to_int): to_int_type(
\* client_conn_->get(key()))
to_int(key, answer) ==
  /\ Idle
  /\ LET socket == get_socket(key).socket IN
     Return("to_int", <<key>>,
       to_int_type(
         recv_bulk(send_(route_key(Begin, key), socket,
                         makecmd_str(shl_string(makecmd(<<"G", "E", "T">>), key)),
                         1, answer),
                   socket)))



\* base_client::lrem: the operation in flight after its reply was read
lrem(key, count, value, answer) ==
  LET socket == get_socket(key).socket IN
  recv_int(send_(route_key(Begin, key), socket,
                 makecmd_str(shl_string(shl_int(shl_string(
                   makecmd(<<"L", "R", "E", "M">>), key), count), value)),
                 1, answer),
           socket)

\* lrem_exact: if (lrem(key, count, value) != count) throw value_error.
\* acc keeps the count asked for.
lrem_exact_check(ctx, count) ==
  IF ctx.err # "none" THEN ctx
  ELSE IF ctx.n # count THEN throw([ctx EXCEPT !.acc = count], "value_error")
  ELSE [ctx EXCEPT !.acc = count]

\* base_client::lrem_exact
lrem_exact(key, count, value, answer) ==
  /\ Ready
  /\ Return("lrem_exact", <<key>>,
            lrem_exact_check(lrem(key, count, value, answer), count))

\* base_client::lrange
lrange(key, start, end, answer) ==
  /\ Ready
  /\ LET socket == get_socket(key).socket IN
     Return("lrange", <<key>>,
       recv_multi_bulk(
         send_(route_key(Begin, key), socket,
               makecmd_str(shl_int(shl_int(shl_string(makecmd(<<"L", "R", "A", "N", "G", "E">>), key),
                                           start), end)),
               1, answer),
         socket, <<>>))

\* base_client::smembers
smembers(key, answer) ==
  /\ Ready
  /\ LET socket == get_socket(key).socket IN
     Return("smembers", <<key>>,
       recv_multi_bulk_set(
         send_(route_key(Begin, key), socket,
               makecmd_str(shl_string(makecmd(<<"S", "M", "E", "M", "B", "E", "R", "S">>), key)),
               1, answer),
         socket, {}))

\* ------------------------------------------------------- two-key operations
\* base_client::rename
rename(old_name, new_name, answer) ==
  /\ Ready
  /\ LET source_socket == get_socket(old_name).socket
         destin_socket == get_socket(new_name).socket
     IN Return("rename", <<old_name, new_name>>,
          recv_ok(
            send_(same_socket(route_key(route_key(Begin, old_name), new_name),
                              source_socket, destin_socket),
                  source_socket,
                  makecmd_str(shl_string(shl_string(makecmd(<<"R", "E", "N", "A", "M", "E">>),
                                                    old_name), new_name)),
                  1, answer),
            source_socket))

\* base_client::renamenx
renamenx(old_name, new_name, answer) ==
  /\ Ready
  /\ LET source_socket == get_socket(old_name).socket
         destin_socket == get_socket(new_name).socket
     IN Return("renamenx", <<old_name, new_name>>,
          recv_int(
            send_(same_socket(route_key(route_key(Begin, old_name), new_name),
                              source_socket, destin_socket),
                  source_socket,
                  makecmd_str(shl_string(shl_string(makecmd(<<"R", "E", "N", "A", "M", "E", "N", "X">>),
                                                    old_name), new_name)),
                  1, answer),
            source_socket))

\* base_client::smove
smove(srckey, dstkey, member, answer) ==
  /\ Ready
  /\ LET src_socket == get_socket(srckey).socket
         dst_socket == get_socket(dstkey).socket
     IN Return("smove", <<srckey, dstkey>>,
          recv_int_ok(
            send_(same_socket(route_key(route_key(Begin, srckey), dstkey),
                              dst_socket, src_socket),
                  src_socket,
                  makecmd_str(shl_string(shl_string(shl_string(
                    makecmd(<<"S", "M", "O", "V", "E">>), srckey), dstkey), member)),
                  1, answer),
            src_socket))

\* ------------------------------------------------------ key-list operations
\* blpop and brpop hand back (sv[0], sv[1]) or ("", missing_value())
pop_result(ctx) ==
  IF ctx.err # "none" THEN ctx
  ELSE IF Len(ctx.l) = 2 THEN [ctx EXCEPT !.out = ctx.l]
  ELSE [ctx EXCEPT !.out = <<<<>>, missing_value>>]

\* blpop(keys, timeout) from send_ on; ctx.socket is get_socket(keys)
blpop_exchange(ctx, keys, timeout, answer) ==
  pop_result(recv_multi_bulk(
    send_(ctx, ctx.socket,
          makecmd_str(shl_int(shl_vector(makecmd(<<"B", "L", "P", "O", "P">>), keys), timeout)),
          1, answer),
    ctx.socket, <<>>))

\* base_client::blpop(const string_vector &, int_type)
blpop(keys, timeout, answer) ==
  /\ Ready
  /\ Return("blpop", keys,
            blpop_exchange(get_socket_keys(Begin, keys), keys, timeout, answer))

\* brpop(keys, timeout) from send_ on
brpop_exchange(ctx, keys, timeout, answer) ==
  pop_result(recv_multi_bulk(
    send_(ctx, ctx.socket,
          makecmd_str(shl_int(shl_vector(makecmd(<<"B", "R", "P", "O", "P">>), keys), timeout)),
          1, answer),
    ctx.socket, <<>>))

\* base_client::brpop(const string_vector &, int_type)
brpop(keys, timeout, answer) ==
  /\ Ready
  /\ Return("brpop", keys,
            brpop_exchange(get_socket_keys(Begin, keys), keys, timeout, answer))

\* sinter, sunion, sdiff from send_ on
set_exchange(ctx, cmd_name, keys, answer) ==
  recv_multi_bulk_set(
    send_(ctx, ctx.socket, makecmd_str(shl_vector(makecmd(cmd_name), keys)),
          1, answer),
    ctx.socket, {})

\* base_client::sinter
sinter(keys, answer) ==
  /\ Ready
  /\ Return("sinter", keys,
            set_exchange(get_socket_keys(Begin, keys), <<"S", "I", "N", "T", "E", "R">>, keys, answer))

\* base_client::sunion
sunion(keys, answer) ==
  /\ Ready
  /\ Return("sunion", keys,
            set_exchange(get_socket_keys(Begin, keys), <<"S", "U", "N", "I", "O", "N">>, keys, answer))

\* base_client::sdiff
sdiff(keys, answer) ==
  /\ Ready
  /\ Return("sdiff", keys,
            set_exchange(get_socket_keys(Begin, keys), <<"S", "D", "I", "F", "F">>, keys, answer))

\* --------------------------------------------------------- store operations
\* The -store operations from the comparison on: socket is
\* get_socket(dstkey), ctx.socket is get_socket(keys), m the command.
store_exchange(ctx, socket, m, answer) ==
  recv_int(send_(same_socket(ctx, socket, ctx.socket), socket,
                 makecmd_str(m), 1, answer),
           socket)

\* base_client::sinterstore
sinterstore(dstkey, keys, answer) ==
  /\ Ready
  /\ Return("sinterstore", <<dstkey>> \o keys,
       store_exchange(get_socket_keys(route_key(Begin, dstkey), keys),
                      get_socket(dstkey).socket,
                      shl_vector(shl_string(makecmd(<<"S", "I", "N", "T", "E", "R", "S", "T", "O", "R", "E">>), dstkey),
                                 keys),
                      answer))

\* base_client::sunionstore
sunionstore(dstkey, keys, answer) ==
  /\ Ready
  /\ Return("sunionstore", <<dstkey>> \o keys,
       store_exchange(get_socket_keys(route_key(Begin, dstkey), keys),
                      get_socket(dstkey).socket,
                      shl_vector(shl_string(makecmd(<<"S", "U", "N", "I", "O", "N", "S", "T", "O", "R", "E">>), dstkey),
                                 keys),
                      answer))

\* base_client::sdiffstore
sdiffstore(dstkey, keys, answer) ==
  /\ Ready
  /\ Return("sdiffstore", <<dstkey>> \o keys,
       store_exchange(get_socket_keys(route_key(Begin, dstkey), keys),
                      get_socket(dstkey).socket,
                      shl_vector(shl_string(makecmd(<<"S", "D", "I", "F", "F", "S", "T", "O", "R", "E">>), dstkey),
                                 keys),
                      answer))

\* enum aggregate_type
sum == 1
min == 2
max == 4

\* switch(aggragate): no case ends in a break
aggregate_switch(m, aggragate) ==
  CASE aggragate = sum ->
         shl_string(shl_string(shl_string(m, <<"S", "U", "M">>), <<"M", "I", "N">>), <<"M", "A", "X">>)
    [] aggragate = min -> shl_string(shl_string(m, <<"M", "I", "N">>), <<"M", "A", "X">>)
    [] aggragate = max -> shl_string(m, <<"M", "A", "X">>)
    [] OTHER -> m

\* if (weights.size() > 0) m << weights.size() << weights
with_weights(m, weights) ==
  IF Len(weights) > 0 THEN shl_vector(shl_int(m, Len(weights)), weights)
  ELSE m

\* the command zunionstore and zinterstore build
zstore_cmd(cmd_name, dstkey, keys, weights, aggragate) ==
  aggregate_switch(
    shl_string(
      with_weights(
        shl_vector(shl_int(shl_string(makecmd(cmd_name), dstkey), Len(keys)),
                   keys),
        weights),
      <<"A", "G", "G", "R", "E", "G", "A", "T", "E">>),
    aggragate)

\* base_client::zunionstore; acc keeps the aggregate type asked for
zunionstore(dstkey, keys, weights, aggragate, answer) ==
  /\ Ready
  /\ Return("zunionstore", <<dstkey>> \o keys,
       store_exchange(get_socket_keys(route_key([Begin EXCEPT !.acc = aggragate],
                                                dstkey), keys),
                      get_socket(dstkey).socket,
                      zstore_cmd(<<"Z", "U", "N", "I", "O", "N", "S", "T", "O", "R", "E">>, dstkey, keys, weights,
                                 aggragate),
                      answer))

\* base_client::zinterstore
zinterstore(dstkey, keys, weights, aggragate, answer) ==
  /\ Ready
  /\ Return("zinterstore", <<dstkey>> \o keys,
       store_exchange(get_socket_keys(route_key([Begin EXCEPT !.acc = aggragate],
                                                dstkey), keys),
                      get_socket(dstkey).socket,
                      zstore_cmd(<<"Z", "I", "N", "T", "E", "R", "S", "T", "O", "R", "E">>, dstkey, keys, weights,
                                 aggragate),
                      answer))

\* ---------------------------------------------------- whole-client operations
\* base_client::auth
auth(pass, answer) ==
  /\ Ready
  /\ LET socket == connections_[1].socket IN
     Return("auth", <<>>,
       recv_ok(send_(single_connection_only(Begin), socket,
                     makecmd_str(shl_string(makecmd(<<"A", "U", "T", "H">>), pass)),
                     1, answer),
               socket))

\* base_client::select(int_type dbindex)
select(dbindex, answer) ==
  /\ Ready
  /\ LET socket == connections_[1].socket IN
     Return("select", <<>>,
       recv_ok(send_(single_connection_only(Begin), socket,
                     makecmd_str(shl_int(makecmd(<<"S", "E", "L", "E", "C", "T">>), dbindex)),
                     1, answer),
               socket))

\* base_client::flushall()
flushall(answer) ==
  /\ Ready
  /\ LET socket == connections_[1].socket IN
     Return("flushall", <<>>,
       recv_ok(send_(single_connection_only(Begin), socket,
                     makecmd_str(makecmd(<<"F", "L", "U", "S", "H", "A", "L", "L">>)), 1, answer),
               socket))

\* ------------------------------------------------ every-connection operations
\* BOOST_FOREACH(con, connections_) send_(con.socket, msg), from the i-th
\* connection on; answers[fd] is what the server on fd answers
RECURSIVE send_each(_, _, _, _)
\* A plausible slip: the loop ends after the first connection.
send_each_first_only(ctx, i, msg, answers) ==
  IF i > 1 THEN ctx
  ELSE send_(ctx, connections_[i].socket, msg, 1,
             answers[connections_[i].socket])

send_each(ctx, i, msg, answers) ==
  IF i > Len(connections_) THEN ctx
  ELSE send_each(send_(ctx, connections_[i].socket, msg, 1,
                       answers[connections_[i].socket]),
                 i + 1, msg, answers)

\* BOOST_FOREACH(con, connections_) recv_ok_reply_(con.socket)
RECURSIVE recv_ok_each(_, _)
recv_ok_each(ctx, i) ==
  IF i > Len(connections_) THEN ctx
  ELSE recv_ok_each(recv_ok(ctx, connections_[i].socket), i + 1)

\* base_client::flushdb()
flushdb(answers) ==
  /\ Ready
  /\ Return("flushdb", <<>>,
       recv_ok_each(send_each(Begin, 1, makecmd_str(makecmd(<<"F", "L", "U", "S", "H", "D", "B">>)),
                              answers),
                    1))

\* base_client::save()
save(answers) ==
  /\ Ready
  /\ Return("save", <<>>,
       recv_ok_each(send_each(Begin, 1, makecmd_str(makecmd(<<"S", "A", "V", "E">>)),
                              answers),
                    1))

\* val += <the integer just decoded>
add_n(ctx) ==
  IF ctx.err # "none" THEN ctx ELSE [ctx EXCEPT !.acc = @ + ctx.n]

\* keys()'s second loop: res += recv_multi_bulk_reply_(con.socket, out)
RECURSIVE keys_recv_each(_, _)
keys_recv_each(ctx, i) ==
  IF i > Len(connections_) THEN ctx
  ELSE keys_recv_each(
         add_n(recv_multi_bulk(ctx, connections_[i].socket, ctx.l)), i + 1)

\* base_client::keys
keys(pattern, answers) ==
  /\ Ready
  /\ Return("keys", <<>>,
       keys_recv_each(
         send_each(Begin, 1, makecmd_str(shl_string(makecmd(<<"K", "E", "Y", "S">>), pattern)),
                   answers),
         1))

\* dbsize()'s second loop: val += recv_int_reply_(con.socket)
RECURSIVE dbsize_recv_each(_, _)
dbsize_recv_each(ctx, i) ==
  IF i > Len(connections_) THEN ctx
  ELSE dbsize_recv_each(add_n(recv_int(ctx, connections_[i].socket)), i + 1)

\* base_client::dbsize()
dbsize(answers) ==
  /\ Idle
  /\ Return("dbsize", <<>>,
       dbsize_recv_each(
         send_each(Begin, 1, makecmd_str(makecmd(<<"D", "B", "S", "I", "Z", "E">>)), answers), 1))

BackgroundSavingStarted == <<"B", "a", "c", "k", "g", "r", "o", "u", "n", "d", " ", "s", "a", "v", "i", "n", "g", " ", "s", "t", "a", "r", "t", "e", "d">>

BgsaveAnswers ==
  {status_reply(BackgroundSavingStarted),
   status_reply(REDIS_STATUS_REPLY_OK), error_reply}

\* if (reply != REDIS_STATUS_REPLY_OK && reply != "Background saving
\* started") throw protocol_error(...)
bgsave_check(ctx) ==
  IF ctx.err = "none" /\ ctx.s # REDIS_STATUS_REPLY_OK
     /\ ctx.s # BackgroundSavingStarted
  THEN throw(ctx, "protocol_error") ELSE ctx

\* bgsave()'s second loop
RECURSIVE bgsave_recv_each(_, _)
bgsave_recv_each(ctx, i) ==
  IF i > Len(connections_) THEN ctx
  ELSE bgsave_recv_each(
         bgsave_check(recv_line(ctx, connections_[i].socket)), i + 1)

\* base_client::bgsave()
bgsave(answers) ==
  /\ Ready
  /\ Return("bgsave", <<>>,
       bgsave_recv_each(
         send_each(Begin, 1, makecmd_str(makecmd(<<"B", "G", "S", "A", "V", "E">>)), answers), 1))

\* if (res > 0) res = std::min(cur, res); else res = cur;
\* out keeps the timestamps read so far.
lastsave_fold(ctx) ==
  IF ctx.err # "none" THEN ctx
  ELSE [ctx EXCEPT !.acc = IF @ > 0 THEN Min(ctx.n, @) ELSE ctx.n,
                   !.out = Append(@, ctx.n)]

\* lastsave()'s loop: one connection after the other
RECURSIVE lastsave_each(_, _, _)
lastsave_each(ctx, i, answers) ==
  IF i > Len(connections_) THEN ctx
  ELSE lastsave_each(
         lastsave_fold(
           recv_int(send_(ctx, connections_[i].socket,
                          makecmd_str(makecmd(<<"L", "A", "S", "T", "S", "A", "V", "E">>)), 1,
                          answers[connections_[i].socket]),
                    connections_[i].socket)),
         i + 1, answers)

\* base_client::lastsave()
lastsave(answers) ==
  /\ Idle
  /\ Return("lastsave", <<>>, lastsave_each(Begin, 1, answers))

\* A server that obeys SHUTDOWN closes the connection without a reply
\* (answer <<>>); one that refuses answers with an error.
ShutdownAnswers == {<<>>, error_reply}

shutdown_send(ctx, socket, answer) ==
  IF answer = <<>>
  THEN peer_closes(send_(ctx, socket, makecmd_str(makecmd(<<"S", "H", "U", "T", "D", "O", "W", "N">>)), 1,
                         answer),
                   socket)
  ELSE send_(ctx, socket, makecmd_str(makecmd(<<"S", "H", "U", "T", "D", "O", "W", "N">>)), 1, answer)

\* try { recv_ok_reply_(socket); } catch (connection_error & e) {}
\* (a connection_error thrown by send_ is outside the try block)
shutdown_recv(ctx, socket) ==
  IF ctx.err # "none" THEN ctx
  ELSE catch_connection_error(recv_ok(ctx, socket))

\* shutdown()'s loop: one connection after the other
RECURSIVE shutdown_each(_, _, _)
shutdown_each(ctx, i, answers) ==
  IF i > Len(connections_) THEN ctx
  ELSE shutdown_each(
         shutdown_recv(shutdown_send(ctx, connections_[i].socket,
                                     answers[connections_[i].socket]),
                       connections_[i].socket),
         i + 1, answers)

\* base_client::shutdown()
shutdown(answers) ==
  /\ Idle
  /\ Return("shutdown", <<>>, shutdown_each(Begin, 1, answers))

\* ------------------------------------------------------ per-socket commands
\* std::map iterates its sockets in ascending order
RECURSIVE Ascending(_)
Ascending(S) ==
  IF S = {} THEN <<>>
  ELSE LET x == CHOOSE y \in S : \A z \in S : y <= z
       IN <<x>> \o Ascending(S \ {x})

\* cmd = socket_commands[socket]; if (!cmd) cmd = makecmd(cmd_name);
\* *cmd << key << value
add_pair(ctx, cmd_name, key, value) ==
  IF ctx.err # "none" THEN ctx
  ELSE IF ctx.socket \in DOMAIN ctx.cmds
  THEN [ctx EXCEPT !.cmds[ctx.socket] = shl_string(shl_string(@, key), value)]
  ELSE [ctx EXCEPT !.cmds = ctx.cmds @@ (ctx.socket :>
          shl_string(shl_string(makecmd(cmd_name), key), value))]

\* BOOST_FOREACH(sp, socket_commands) send_(sp.first, *sp.second)
RECURSIVE send_commands(_, _, _, _)
send_commands(ctx, order, i, answers) ==
  IF i > Len(order) \/ ctx.err # "none" THEN ctx
  ELSE send_commands(send_(ctx, order[i], makecmd_str(ctx.cmds[order[i]]), 1,
                           answers[order[i]]),
                     order, i + 1, answers)

\* BOOST_FOREACH(sp, socket_commands) recv_ok_reply_(sp.first)
RECURSIVE recv_ok_commands(_, _, _)
recv_ok_commands(ctx, order, i) ==
  IF i > Len(order) THEN ctx
  ELSE recv_ok_commands(recv_ok(ctx, order[i]), order, i + 1)

\* mset's two loops over socket_commands
mset_exchange(ctx, answers) ==
  recv_ok_commands(
    send_commands(ctx, Ascending(DOMAIN ctx.cmds), 1, answers),
    Ascending(DOMAIN ctx.cmds), 1)

\* mset(key_value_pairs)'s first loop
RECURSIVE mset_collect(_, _, _)
mset_collect(ctx, key_value_pairs, i) ==
  IF i > Len(key_value_pairs) THEN ctx
  ELSE mset_collect(
         add_pair(route_key(ctx, key_value_pairs[i][1]), <<"M", "S", "E", "T">>,
                  key_value_pairs[i][1], key_value_pairs[i][2]),
         key_value_pairs, i + 1)

PairKeys(key_value_pairs) ==
  [i \in 1..Len(key_value_pairs) |-> key_value_pairs[i][1]]

\* base_client::mset(const string_pair_vector &)
mset(key_value_pairs, answers) ==
  /\ Idle
  /\ Return("mset", PairKeys(key_value_pairs),
            mset_exchange(mset_collect(Begin, key_value_pairs, 1), answers))

\* mset(keys, values)'s first loop: get_socket(keys) in every round
RECURSIVE mset_vectors_collect(_, _, _, _, _)
mset_vectors_collect(ctx, cmd_name, keys_, values, i) ==
  IF i > Len(keys_) THEN ctx
  ELSE mset_vectors_collect(
         add_pair(get_socket_keys(ctx, keys_), cmd_name, keys_[i], values[i]),
         cmd_name, keys_, values, i + 1)

\* base_client::mset(const string_vector &, const string_vector &)
mset_vectors(keys_, values, answers) ==
  /\ Ready
  /\ Return("mset_vectors", keys_,
            mset_exchange(mset_vectors_collect(Begin, <<"M", "S", "E", "T">>, keys_, values, 1),
                          answers))

\* if (socket_commands.size() > 1) throw std::runtime_error(...)
one_command_only(ctx) ==
  IF ctx.err = "none" /\ Cardinality(DOMAIN ctx.cmds) > 1
  THEN throw(ctx, "runtime_error") ELSE ctx

\* msetnx's last loop: send_ and recv_ok_reply_ per socket
RECURSIVE msetnx_each(_, _, _, _)
msetnx_each(ctx, order, i, answers) ==
  IF i > Len(order) \/ ctx.err # "none" THEN ctx
  ELSE msetnx_each(
         recv_ok(send_(ctx, order[i], makecmd_str(ctx.cmds[order[i]]), 1,
                       answers[order[i]]),
                 order[i]),
         order, i + 1, answers)

msetnx_exchange(ctx, answers) ==
  msetnx_each(ctx, Ascending(DOMAIN ctx.cmds), 1, answers)

\* base_client::msetnx(const string_vector &, const string_vector &); the
\* bool it returns is never set
msetnx(keys_, values, answers) ==
  /\ Ready
  /\ Return("msetnx", keys_,
       msetnx_exchange(
         one_command_only(
           mset_vectors_collect(Begin, <<"M", "S", "E", "T", "N", "X">>, keys_, values, 1)),
         answers))

\* msetex's first loop body once socket is known
add_msetex(ctx, key, value, seconds) ==
  IF ctx.err # "none" THEN ctx
  ELSE IF ctx.socket \in DOMAIN ctx.cmds
  THEN [ctx EXCEPT
          !.cmds[ctx.socket].mset_cmd = shl_string(shl_string(@, key), value),
          !.cmds[ctx.socket].expire_cmds =
            @ \o makecmd_str(shl_int(shl_string(makecmd(<<"E", "X", "P", "I", "R", "E">>), key),
                                     seconds)),
          !.cmds[ctx.socket].count = @ + 1]
  ELSE [ctx EXCEPT !.cmds = ctx.cmds @@ (ctx.socket :>
          [mset_cmd |-> shl_string(shl_string(makecmd(<<"M", "S", "E", "T">>), key), value),
           expire_cmds |->
             makecmd_str(shl_int(shl_string(makecmd(<<"E", "X", "P", "I", "R", "E">>), key), seconds)),
           count |-> 1])]

RECURSIVE msetex_collect(_, _, _, _)
msetex_collect(ctx, key_value_pairs, seconds, i) ==
  IF i > Len(key_value_pairs) THEN ctx
  ELSE msetex_collect(
         add_msetex(route_key(ctx, key_value_pairs[i][1]),
                    key_value_pairs[i][1], key_value_pairs[i][2], seconds),
         key_value_pairs, seconds, i + 1)

\* msetex's second loop: MSET and the EXPIREs leave in one write
RECURSIVE msetex_send(_, _, _, _)
msetex_send(ctx, order, i, modes) ==
  IF i > Len(order) \/ ctx.err # "none" THEN ctx
  ELSE msetex_send(
         send_(ctx, order[i],
               makecmd_str(ctx.cmds[order[i]].mset_cmd)
                 \o ctx.cmds[order[i]].expire_cmds,
               1 + ctx.cmds[order[i]].count,
               MsetexAnswer(modes[order[i]], ctx.cmds[order[i]].count)),
         order, i + 1, modes)

\* for (i = 0; i < sp.second.count; i++) recv_int_ok_reply_(sp.first)
RECURSIVE recv_int_ok_times(_, _, _)
recv_int_ok_times(ctx, socket, count) ==
  IF count <= 0 THEN ctx
  ELSE recv_int_ok_times(recv_int_ok(ctx, socket), socket, count - 1)

\* msetex's third loop
RECURSIVE msetex_recv(_, _, _)
msetex_recv(ctx, order, i) ==
  IF i > Len(order) \/ ctx.err # "none" THEN ctx
  ELSE msetex_recv(
         recv_int_ok_times(recv_ok(ctx, order[i]), order[i],
                           ctx.cmds[order[i]].count),
         order, i + 1)

msetex_exchange(ctx, modes) ==
  msetex_recv(msetex_send(ctx, Ascending(DOMAIN ctx.cmds), 1, modes),
              Ascending(DOMAIN ctx.cmds), 1)

\* base_client::msetex
msetex(key_value_pairs, seconds, modes) ==
  /\ Ready
  /\ Return("msetex", PairKeys(key_value_pairs),
            msetex_exchange(msetex_collect(Begin, key_value_pairs, seconds, 1),
                            modes))

\* mget's first loop body once socket is known; indices count from 0
add_key(ctx, key, i) ==
  IF ctx.err # "none" THEN ctx
  ELSE IF ctx.socket \in DOMAIN ctx.cmds
  THEN [ctx EXCEPT !.cmds[ctx.socket].cmd = shl_string(@, key),
                   !.cmds[ctx.socket].indices = Append(@, i)]
  ELSE [ctx EXCEPT !.cmds = ctx.cmds @@ (ctx.socket :>
          [cmd |-> shl_string(makecmd(<<"M", "G", "E", "T">>), key), indices |-> <<i>>])]

RECURSIVE mget_collect(_, _, _)
mget_collect(ctx, keys_, i) ==
  IF i > Len(keys_) THEN ctx
  ELSE mget_collect(add_key(route_key(ctx, keys_[i]), keys_[i], i - 1),
                    keys_, i + 1)

RECURSIVE mget_send(_, _, _, _)
mget_send(ctx, order, i, modes) ==
  IF i > Len(order) \/ ctx.err # "none" THEN ctx
  ELSE mget_send(
         send_(ctx, order[i], makecmd_str(ctx.cmds[order[i]].cmd), 1,
               MgetAnswer(modes[order[i]], Tail(ctx.cmds[order[i]].cmd))),
         order, i + 1, modes)

\* for (i = 0; i < cur_out.size(); i++) out[indices[i]] = cur_out[i];
\* indices[i] past the end of indices is undefined behaviour
scatter(ctx, indices) ==
  IF ctx.err # "none" THEN ctx
  ELSE IF Len(ctx.l) > Len(indices) THEN throw(ctx, "undefined")
  ELSE [ctx EXCEPT !.out =
          [j \in 1..Len(ctx.out) |->
             IF \E i \in 1..Len(ctx.l) : indices[i] = j - 1
             THEN ctx.l[CHOOSE i \in 1..Len(ctx.l) : indices[i] = j - 1]
             ELSE ctx.out[j]]]

RECURSIVE mget_recv(_, _, _)
mget_recv(ctx, order, i) ==
  IF i > Len(order) \/ ctx.err # "none" THEN ctx
  ELSE mget_recv(scatter(recv_multi_bulk(ctx, order[i], <<>>),
                         ctx.cmds[order[i]].indices),
                 order, i + 1)

mget_exchange(ctx, modes) ==
  mget_recv(mget_send(ctx, Ascending(DOMAIN ctx.cmds), 1, modes),
            Ascending(DOMAIN ctx.cmds), 1)

\* base_client::mget
mget(keys_, modes) ==
  /\ Ready
  /\ Return("mget", keys_,
       mget_exchange(
         mget_collect([Begin EXCEPT !.out = [i \in 1..Len(keys_) |-> <<>>]],
                      keys_, 1),
         modes))

\* ------------------------------------------------------------ the caller
\* The caller has looked at what the call returned or threw.
Release ==
  /\ last # NoOp
  /\ last' = NoOp
  /\ UNCHANGED <<connections_, inbox, closed, routed>>

Weights(keys_) == {<<>>, [i \in 1..Len(keys_) |-> <<"2">>]}

Aggregates == {sum, min, max}

\* the state a successful constructor leaves: up to MaxConns servers
\* connected and selected, nothing unread
Init ==
  /\ CodecIdle
  /\ DecoderIdle
  /\ ReaderIdle
  /\ \E n \in 1..MaxConns :
       /\ supplied = [i \in 1..n |->
            [host |-> "localhost", port |-> 6378 + i, dbindex |-> 0]]
       /\ connections_ = [i \in 1..n |->
            [host |-> "localhost", port |-> 6378 + i, dbindex |-> 0,
             socket |-> 2 + i]]
       /\ inbox = [s \in {2 + i : i \in 1..n} |-> <<>>]
       /\ ctor = [NoCtor EXCEPT !.form = "range", !.pc = "done", !.i = n + 1]
  /\ closed = {}
  /\ last = NoOp
  /\ routed = [k \in Keys |-> -1]
  /\ key_ = NoKey

\* the caller of a client whose servers stay up until a shutdown, after
\* which it calls nothing more
Next ==
  \/ \E key \in Keys, answer \in OkAnswers :
       set(key, Value, answer) /\ UNCHANGED notClient
  \/ \E key \in Keys, answer \in BulkAnswers :
       Ready /\ get(key, answer) /\ UNCHANGED notClient
  \/ \E key \in Keys, answer \in IntAnswers :
       incr(key, answer) /\ UNCHANGED notClient
  \/ \E key \in Keys, answer \in IntAnswers :
       del(key, answer) /\ UNCHANGED notClient
  \/ \E key \in Keys, count \in LremCounts, answer \in LremAnswers :
       lrem_exact(key, count, Value, answer) /\ UNCHANGED notClient
  \/ \E key \in Keys, answer \in MultiAnswers :
       lrange(key, 0, -1, answer) /\ UNCHANGED notClient
  \/ \E key \in Keys, answer \in MultiAnswers :
       smembers(key, answer) /\ UNCHANGED notClient
  \/ \E old_name \in Keys, new_name \in Keys, answer \in OkAnswers :
       rename(old_name, new_name, answer) /\ UNCHANGED notClient
  \/ \E old_name \in Keys, new_name \in Keys, answer \in IntAnswers :
       renamenx(old_name, new_name, answer) /\ UNCHANGED notClient
  \/ \E srckey \in Keys, dstkey \in Keys, answer \in IntAnswers :
       smove(srckey, dstkey, Value, answer) /\ UNCHANGED notClient
  \/ \E ks \in KeyLists : \E answer \in PopAnswers(ks[1]) :
       blpop(ks, 1, answer) /\ UNCHANGED notClient
  \/ \E ks \in KeyLists : \E answer \in PopAnswers(ks[1]) :
       brpop(ks, 1, answer) /\ UNCHANGED notClient
  \/ \E ks \in KeyLists, answer \in MultiAnswers :
       sinter(ks, answer) /\ UNCHANGED notClient
  \/ \E ks \in KeyLists, answer \in MultiAnswers :
       sunion(ks, answer) /\ UNCHANGED notClient
  \/ \E ks \in KeyLists, answer \in MultiAnswers :
       sdiff(ks, answer) /\ UNCHANGED notClient
  \/ \E dstkey \in Keys, ks \in KeyLists, answer \in StoreAnswers :
       sinterstore(dstkey, ks, answer) /\ UNCHANGED notClient
  \/ \E dstkey \in Keys, ks \in KeyLists, answer \in StoreAnswers :
       sunionstore(dstkey, ks, answer) /\ UNCHANGED notClient
  \/ \E dstkey \in Keys, ks \in KeyLists, answer \in StoreAnswers :
       sdiffstore(dstkey, ks, answer) /\ UNCHANGED notClient
  \/ \E dstkey \in Keys, ks \in KeyLists, aggragate \in Aggregates,
          answer \in StoreAnswers :
       \E weights \in Weights(ks) :
         zunionstore(dstkey, ks, weights, aggragate, answer) /\ UNCHANGED notClient
  \/ \E dstkey \in Keys, ks \in KeyLists, aggragate \in Aggregates,
          answer \in StoreAnswers :
       \E weights \in Weights(ks) :
         zinterstore(dstkey, ks, weights, aggragate, answer) /\ UNCHANGED notClient
  \/ \E answer \in OkAnswers :
       auth(Value, answer) /\ UNCHANGED notClient
  \/ \E answer \in OkAnswers :
       select(1, answer) /\ UNCHANGED notClient
  \/ \E answer \in OkAnswers :
       flushall(answer) /\ UNCHANGED notClient
  \/ \E answers \in [Sockets -> OkAnswers] :
       flushdb(answers) /\ UNCHANGED notClient
  \/ \E answers \in [Sockets -> OkAnswers] :
       save(answers) /\ UNCHANGED notClient
  \/ \E answers \in [Sockets -> MultiAnswers] :
       keys(<<"*">>, answers) /\ UNCHANGED notClient
  \/ \E answers \in [Sockets -> IntAnswers] :
       Ready /\ dbsize(answers) /\ UNCHANGED notClient
  \/ \E answers \in [Sockets -> BgsaveAnswers] :
       bgsave(answers) /\ UNCHANGED notClient
  \/ \E answers \in [Sockets -> IntAnswers] :
       Ready /\ lastsave(answers) /\ UNCHANGED notClient
  \/ \E answers \in [Sockets -> ShutdownAnswers] :
       Ready /\ shutdown(answers) /\ UNCHANGED notClient
  \/ \E pairs \in PairLists, answers \in [Sockets -> OkAnswers] :
       Ready /\ mset(pairs, answers) /\ UNCHANGED notClient
  \/ \E ks \in KeyLists, answers \in [Sockets -> OkAnswers] :
       mset_vectors(ks, [i \in 1..Len(ks) |-> Value], answers) /\ UNCHANGED notClient
  \/ \E ks \in KeyLists, answers \in [Sockets -> MsetnxAnswers] :
       msetnx(ks, [i \in 1..Len(ks) |-> Value], answers) /\ UNCHANGED notClient
  \/ \E pairs \in PairLists, modes \in [Sockets -> MsetexModes] :
       msetex(pairs, 10, modes) /\ UNCHANGED notClient
  \/ \E ks \in KeyLists \cup {<<>>}, modes \in [Sockets -> MgetModes] :
       mget(ks, modes) /\ UNCHANGED notClient
  \/ Release /\ UNCHANGED notClient

Spec == Init /\ [][Next]_vars

\* --------------------------------------------------- a server that goes away
\* The server behind socket goes away while the client is idle: the peer
\* closes the connection; bytes it had sent stay readable.
PeerLost(socket) ==
  /\ connections_ # <<>>
  /\ last = NoOp
  /\ socket \notin closed
  /\ closed' = closed \cup {socket}
  /\ UNCHANGED <<connections_, inbox, last, routed>>

\* the client among servers that go away: the caller's calls are one-key,
\* one-by-one, every-connection, per-shard and any-connection operations
\* and shutdown
FailingNext ==
  \/ \E socket \in Sockets : PeerLost(socket) /\ UNCHANGED notClient
  \/ \E key \in Keys :
       \E answer \in AnswersOn(get_socket(key).socket, BulkAnswers) :
         get(key, answer) /\ UNCHANGED notClient
  \/ \E answers \in AnswersEach(IntAnswers) :
       dbsize(answers) /\ UNCHANGED notClient
  \/ \E answers \in AnswersEach(IntAnswers) :
       lastsave(answers) /\ UNCHANGED notClient
  \/ \E answers \in AnswersEach(ShutdownAnswers) :
       shutdown(answers) /\ UNCHANGED notClient
  \/ \E pairs \in PairLists, answers \in AnswersEach(OkAnswers) :
       mset(pairs, answers) /\ UNCHANGED notClient
  \/ \E draw \in 0..Len(connections_), outcome \in PastTheEnd,
          alias \in Sockets :
       \E answer \in AnswersOn(random_socket(draw, alias), BulkAnswers) :
         randomkey(draw, outcome, alias, answer) /\ UNCHANGED notClient
  \/ \E key \in Keys :
       \E answer \in AnswersOn(get_socket(key).socket, SharedIntAnswers) :
         to_int(key, answer) /\ UNCHANGED notClient
  \/ Release /\ UNCHANGED notClient

SpecFailing == Init /\ [][FailingNext]_vars

\* ------------------------------------------------- claims about the client
IsSend(e) == e.ev = "send"

IsRecv(e) == e.ev = "recv"

ConsumedErrors == {"none", "protocol_error", "key_error", "value_error"}

\* C1: whenever an operation returns, normally or with a protocol, key or
\* value error, every connection it wrote to has nothing unread left, and
\* no operation writes to a connection that still holds unread bytes of an
\* earlier reply (which its decoder would take for its own).
C1_RepliesConsumed ==
  last.err \in ConsumedErrors =>
    \A i \in 1..Len(last.log) :
      IsSend(last.log[i]) =>
        /\ last.log[i].unread = 0
        /\ inbox[last.log[i].socket] = <<>>

\* C2: at most one request is outstanding on a connection: every write
\* carries one command and finds nothing unread on its connection.
C2_OneOutstanding ==
  \A i \in 1..Len(last.log) :
    IsSend(last.log[i]) =>
      /\ last.log[i].cmds = 1
      /\ last.log[i].unread = 0

MultiKeyOps ==
  {"rename", "renamenx", "smove", "blpop", "brpop", "sinter", "sunion",
   "sdiff", "sinterstore", "sunionstore", "sdiffstore", "zunionstore",
   "zinterstore", "msetnx"}

\* the keys do not all hash to the same connection index
CrossShard(keys_) ==
  \E i, j \in 1..Len(keys_) :
    boost_hash(keys_[i]) % Len(connections_)
      # boost_hash(keys_[j]) % Len(connections_)

\* C3: with more than one connection, a multi-key operation whose keys do
\* not all resolve to the same connection is rejected (std::runtime_error)
\* and has written nothing and read nothing.
C3_CrossShardRejected ==
  (Len(connections_) > 1 /\ last.op \in MultiKeyOps /\ CrossShard(last.keys))
    => (last.err = "runtime_error" /\ last.log = <<>>)

C3_Witness ==
  /\ Len(connections_) > 1
  /\ last.op = "zinterstore"
  /\ CrossShard(last.keys)
  /\ last.err = "runtime_error"

\* C4: with N > 1 connections every get_socket(key) call selects index
\* hash(key) mod N, which lies in 0..N-1, and the connection at that index,
\* and it is the index the key was routed to the first time.
C4_RoutingByHash ==
  Len(connections_) > 1 =>
    \A i \in 1..Len(last.route) :
      /\ last.route[i].idx \in 0..(Len(connections_) - 1)
      /\ last.route[i].idx
           = boost_hash(last.route[i].key) % Len(connections_)
      /\ last.route[i].socket = connections_[last.route[i].idx + 1].socket
      /\ routed[last.route[i].key] = last.route[i].idx

\* mset(keys, values) routes every key once per round: the same key routed
\* again, with connections 0 and 1 both in use over the client's lifetime
C4_Witness ==
  /\ Len(connections_) > 1
  /\ last.op = "mset_vectors"
  /\ Len(last.route) = 4
  /\ last.err = "none"
  /\ \E k1, k2 \in Keys : routed[k1] = 0 /\ routed[k2] = 1

\* C5: with exactly one connection every get_socket call returns that
\* connection without calling the hasher, every write and read uses it, and
\* no operation throws the cluster-mode std::runtime_error.
C5_SingleConnection ==
  Len(connections_) = 1 =>
    /\ last.err # "runtime_error"
    /\ \A i \in 1..Len(last.route) :
         /\ last.route[i].hashed = 0
         /\ last.route[i].socket = connections_[1].socket
    /\ \A i \in 1..Len(last.log) :
         last.log[i].socket = connections_[1].socket

C5_Witness ==
  /\ Len(connections_) = 1
  /\ last.op = "sinterstore"
  /\ Len(last.keys) = 3
  /\ last.keys[1] # last.keys[2]
  /\ last.keys[2] # last.keys[3]
  /\ last.err = "none"
  /\ Len(last.log) = 2

ConnectionSockets == [i \in 1..Len(connections_) |-> connections_[i].socket]

\* the sockets of the send events of log, in order
SendSockets(log) ==
  LET sends == SelectSeq(log, IsSend)
  IN [i \in 1..Len(sends) |-> sends[i].socket]

EveryConnectionOps == {"keys", "dbsize", "flushdb", "save", "bgsave"}

PerShardOps == {"mset", "mset_vectors", "mget", "msetex"}

OneByOneOps == {"lastsave", "shutdown"}

\* the position of the write to socket s
SendPos(log, s) ==
  CHOOSE i \in 1..Len(log) : IsSend(log[i]) /\ log[i].socket = s

\* All writes precede all reads, no connection is written twice, only
\* written connections are read, and the reads visit the connections in
\* the order of the writes without leaving one out.
TwoPhase(log) ==
  /\ \A i, j \in 1..Len(log) :
       (i < j /\ IsRecv(log[i])) => IsRecv(log[j])
  /\ \A i, j \in 1..Len(log) :
       (i < j /\ IsSend(log[i]) /\ IsSend(log[j]))
         => log[i].socket # log[j].socket
  /\ \A j \in 1..Len(log) :
       IsRecv(log[j]) =>
         /\ \E i \in 1..Len(log) :
              IsSend(log[i]) /\ log[i].socket = log[j].socket
         /\ \A i \in 1..Len(log) :
              (IsSend(log[i]) /\ i < SendPos(log, log[j].socket))
                => \E r \in 1..(j - 1) :
                     IsRecv(log[r]) /\ log[r].socket = log[i].socket
         /\ \A r \in 1..(j - 1) :
              IsRecv(log[r]) =>
                SendPos(log, log[r].socket) <= SendPos(log, log[j].socket)

\* Connection after connection: a write, then the read of its reply.
OneByOne(log) ==
  \A i \in 1..Len(log) :
    /\ (i + 1) \div 2 <= Len(connections_)
    /\ log[i].socket = connections_[(i + 1) \div 2].socket
    /\ log[i].ev = IF i % 2 = 1 THEN "send" ELSE "recv"

\* C7 as claimed: every operation that addresses several connections
\* writes to all of them before it reads, and reads in the order it wrote.
C7_AllTwoPhase ==
  last.op \in EveryConnectionOps \cup PerShardOps \cup OneByOneOps
    => TwoPhase(last.log)

\* C7, amended: keys, dbsize, flushdb, save and bgsave write to every
\* connection in connection order, the per-shard mset, mget and msetex to
\* the connections of their keys, and only then read the replies in the
\* order of the writes; lastsave and shutdown write to and read from one
\* connection after the other.
C7_FanOutOrder ==
  /\ last.op \in EveryConnectionOps
       => (TwoPhase(last.log) /\ SendSockets(last.log) = ConnectionSockets)
  /\ last.op \in PerShardOps
       => (TwoPhase(last.log)
           /\ (last.err = "none" =>
                 \A i \in 1..Len(last.route) :
                   \E j \in 1..Len(last.log) :
                     IsSend(last.log[j])
                       /\ last.log[j].socket = last.route[i].socket))
  /\ last.op \in OneByOneOps => OneByOne(last.log)

C7_Witness ==
  /\ Len(connections_) > 1
  /\ last.op = "dbsize"
  /\ last.err = "none"
  /\ Len(last.log) = 2 * Len(connections_)

\* the connection-by-connection case of C7
C7_WitnessOneByOne ==
  /\ Len(connections_) > 1
  /\ last.op = "lastsave"
  /\ last.err = "none"
  /\ Len(last.log) = 2 * Len(connections_)

\* Every decoder call finds a reply to decode, and no operation runs into
\* undefined behaviour with the servers modelled here.
NeverBlocked ==
  last.err \in {"none", "protocol_error", "key_error", "value_error",
                "runtime_error", "connection_error"}

\* ------------------------------------------------------------ wire format
\* The request format of the protocol, written out independently of
\* makecmd: *<argc>\r\n, then $<len>\r\n<bytes>\r\n per element.
Decimal(n) ==
  IF n < 10 THEN <<DigitChars[n + 1]>>
  ELSE <<DigitChars[(n \div 10) + 1], DigitChars[(n % 10) + 1]>>

RECURSIVE WireElems(_)
WireElems(elems) ==
  IF elems = <<>> THEN <<>>
  ELSE <<"$">> \o Decimal(Len(Head(elems))) \o <<CR, LF>>
         \o Head(elems) \o <<CR, LF>> \o WireElems(Tail(elems))

WireForm(elems) ==
  <<"*">> \o Decimal(Len(elems)) \o <<CR, LF>> \o WireElems(elems)

SetFooBar == <<<<"S", "E", "T">>, <<"f", "o", "o">>, <<"b", "a", "r">>>>

SetFooBarWire ==
  <<"*", "3", CR, LF, "$", "3", CR, LF, "S", "E", "T", CR, LF,
    "$", "3", CR, LF, "f", "o", "o", CR, LF,
    "$", "3", CR, LF, "b", "a", "r", CR, LF>>

\* C8: a serialized command, decoded as a multi-bulk reply, gives back the
\* command name followed by the arguments, unchanged and in order, with a
\* count equal to their number, and leaves the bytes that follow unread.
C8_RoundTrip ==
  cphase = "decoded" =>
    /\ reply.err = "none"
    /\ reply.l = built
    /\ reply.n = Len(built)
    /\ reply.rest = bulkin.tail

\* C8 witness: a command with two arguments, one of them holding CR and LF,
\* has been serialized and decoded.
C8_Witness ==
  /\ cphase = "decoded"
  /\ Len(built) = 3
  /\ \E i \in 2..3 : built[i] = <<CR, LF>>
  /\ bulkin.tail # <<>>

\* C9: the serialized form is exactly *<k+1>\r\n followed by
\* $<len>\r\n<bytes>\r\n for the name and each argument in order, whichever
\* overload appended them; SET foo bar gives the bytes of the example.
C9_WireFormat ==
  cphase \in {"serialized", "decoded"} =>
    /\ bytes = WireForm(built)
    /\ (built = SetFooBar => bytes = SetFooBarWire)

\* C9 witness: SET foo bar has been serialized.
C9_Witness ==
  /\ cphase = "serialized"
  /\ built = SetFooBar
  /\ bytes = SetFooBarWire

\* C10: a bulk reply $<len(P)>\r\n P \r\n decodes to exactly P, whatever
\* bytes P holds, and exactly its bytes are consumed.
C10_BulkBinarySafe ==
  cphase = "bulk" =>
    /\ reply.err = "none"
    /\ reply.s = bulkin.payload
    /\ reply.rest = bulkin.tail

\* C10 witness: a payload holding CR, LF and '$' was decoded with further
\* bytes behind it.
C10_Witness ==
  /\ cphase = "bulk"
  /\ bulkin.payload = <<CR, LF, "$">>
  /\ bulkin.tail = <<":", "1", CR, LF>>
  /\ reply.s = <<CR, LF, "$">>

\* ------------------------------------------------------- the decoders' inputs
\* bound: elements of a multi-bulk reply
MaxElems == 2

\* an element the server holds no value for
Nil == <<"nil">>

ElemValues == {Nil, <<>>, <<"a">>, <<"b">>}

ElemLists == SeqsUpTo(ElemValues, MaxElems)

\* one element of a multi-bulk reply on the wire, and what it stands for
element_reply(e) == IF e = Nil THEN nil_bulk ELSE bulk_reply(e)

element_value(e) == IF e = Nil THEN missing_value ELSE e

\* *<count>\r\n followed by one bulk reply per element
multi_bulk_of(elems) ==
  <<"*">> \o lexical_cast_string(Len(elems)) \o <<CR, LF>>
    \o Flatten([i \in 1..Len(elems) |-> element_reply(elems[i])])

ElementValues(elems) == [i \in 1..Len(elems) |-> element_value(elems[i])]

\* integer replies: the text after ':'
IntTexts ==
  {<<"4", "2">>, <<"-", "7">>, <<"1">>, <<"0">>, <<"a", "b", "c">>, <<>>,
   <<"4", "x">>, <<"-">>}

\* error replies: the token after '-' and the message after the blank
ErrorTokens == {<<"E", "R", "R">>, <<"W", "R", "O", "N", "G">>, <<>>}

ErrorMessages == {<<"x">>, <<"n", "o", " ", "k">>, <<>>}

error_line(token, message) == <<"-">> \o token \o <<" ">> \o message

\* lines that begin with none of + - : $ *, and the empty line
OtherLines == {<<>>, <<"?", "x">>, <<"O", "K">>, <<" ", "+">>}

StatusTexts ==
  {REDIS_STATUS_REPLY_OK, <<"P", "O", "N", "G">>, <<>>, <<"o", "k">>,
   <<"O", "K", " ">>, <<" ", "O", "K">>}

\* headers with a length or count that is no number, or negative
BadHeaders ==
  {<<"$", "a">>, <<"$">>, <<"*", "x">>, <<"*", "-", "2">>,
   <<"*", "-", "3">>, <<"$", "-", "2">>, <<"$", "-", "3">>,
   <<"$", "-", "5">>}

Terminators == {<<CR, LF>>, <<LF>>}

\* the first line of a reply
ReplyLines ==
  {<<":">> \o t : t \in IntTexts}
    \cup {error_line(t, m) : t \in ErrorTokens, m \in ErrorMessages}
    \cup {<<"-">>, <<"-", "E", "R", "R">>}
    \cup {<<"+">> \o t : t \in StatusTexts}
    \cup OtherLines \cup BadHeaders

\* replies that are more than a line, whole or cut short by the peer
BulkReplies ==
  {nil_bulk, bulk_reply(<<>>), bulk_reply(<<"a">>), bulk_reply(<<CR, LF>>),
   bulk_reply(missing_value),
   <<"$", "3", CR, LF, "a", CR, LF>>, <<"$", "1", CR, LF, "a", "b", "c">>}

MultiBulkReplies ==
  {nil_multi_bulk, <<"*", "2", CR, LF, "$", "1", CR, LF, "a", CR, LF>>,
   <<"*", "1", CR, LF, ":", "1", CR, LF>>}
    \cup {multi_bulk_of(elems) : elems \in ElemLists}

Replies ==
  {l \o t : l \in ReplyLines, t \in Terminators}
    \cup BulkReplies \cup MultiBulkReplies

\* what the calling operation's container holds at the call
Outs == {<<>>, <<<<"z">>>>}

OutSets == {{}, {<<"z">>}, {<<"a">>}}

\* ------------------------------------------------------- the decoders' steps
\* One decoder call on a fresh socket that holds head followed by tail.
Feed(decoder, out, outset, head, tail, result) ==
  /\ fed = NotFed
  /\ fed' = [decoder |-> decoder, out |-> out, outset |-> outset,
             head |-> head, tail |-> tail]
  /\ got' = result
  /\ UNCHANGED notDecoder

\* recv_single_line_reply_(socket)
DecodeSingleLine(head, tail) ==
  Feed("status", <<>>, {}, head, tail, recv_single_line_reply_(head \o tail))

\* recv_ok_reply_(socket)
DecodeOk(head, tail) ==
  Feed("ok", <<>>, {}, head, tail, recv_ok_reply_(head \o tail))

\* recv_int_reply_(socket)
DecodeInt(head, tail) ==
  Feed("int", <<>>, {}, head, tail, recv_int_reply_(head \o tail))

\* recv_int_ok_reply_(socket)
DecodeIntOk(head, tail) ==
  Feed("int_ok", <<>>, {}, head, tail, recv_int_ok_reply_(head \o tail))

\* recv_bulk_reply_(socket)
DecodeBulkReply(head, tail) ==
  Feed("bulk", <<>>, {}, head, tail, recv_bulk_reply_(head \o tail))

\* recv_multi_bulk_reply_(socket, out), out a string_vector
DecodeMultiBulk(out, head, tail) ==
  Feed("multi_bulk", out, {}, head, tail,
       recv_multi_bulk_reply_(head \o tail, out))

\* recv_multi_bulk_reply_(socket, out), out a string_set
DecodeMultiBulkSet(out, head, tail) ==
  Feed("multi_bulk_set", <<>>, out, head, tail,
       recv_multi_bulk_reply_set_(head \o tail, out))

DecoderInit == CodecIdle /\ ClientAbsent /\ DecoderIdle /\ ReaderIdle

DecoderNext ==
  \/ \E head \in Replies, tail \in Tails : DecodeSingleLine(head, tail)
  \/ \E head \in Replies, tail \in Tails : DecodeOk(head, tail)
  \/ \E head \in Replies, tail \in Tails : DecodeInt(head, tail)
  \/ \E head \in Replies, tail \in Tails : DecodeIntOk(head, tail)
  \/ \E head \in Replies, tail \in Tails : DecodeBulkReply(head, tail)
  \/ \E out \in Outs, head \in Replies, tail \in Tails :
       DecodeMultiBulk(out, head, tail)
  \/ \E out \in OutSets, head \in Replies, tail \in Tails :
       DecodeMultiBulkSet(out, head, tail)

SpecDecoder == DecoderInit /\ [][DecoderNext]_vars

\* ------------------------------------------------ claims about the decoders
Raised(kind) == got.err = kind

Returned == got.err = "none"

\* C11: the bulk decoder fed $-1\r\n returns the missing sentinel without an
\* error and leaves every byte after the header line unread; that value is
\* not the one it returns for $0\r\n\r\n.
C11_MissingBulk ==
  fed.decoder = "bulk" =>
    /\ fed.head = nil_bulk =>
         /\ Returned
         /\ got.s = missing_value
         /\ got.rest = fed.tail
    /\ fed.head = bulk_reply(<<>>) =>
         /\ Returned
         /\ got.s = <<>>
         /\ got.s # missing_value

\* C11 witness: $-1\r\n was decoded with a further reply behind it.
C11_Witness ==
  /\ fed.decoder = "bulk"
  /\ fed.head = nil_bulk
  /\ fed.tail = <<":", "1", CR, LF>>
  /\ got.s = missing_value
  /\ got.rest = <<":", "1", CR, LF>>

\* C12: fed *-1\r\n, the vector and the set multi-bulk decoders raise a key
\* error and never a protocol error; fed *0\r\n they raise nothing, return
\* the count 0 and add nothing to the caller's container, which stays empty
\* when it was empty.
C12_AbsentOrEmpty ==
  fed.decoder \in {"multi_bulk", "multi_bulk_set"} =>
    /\ fed.head = nil_multi_bulk =>
         /\ Raised("key_error")
         /\ ~Raised("protocol_error")
    /\ fed.head = multi_bulk_of(<<>>) =>
         /\ Returned
         /\ got.n = 0
         /\ got.l = fed.out
         /\ got.set = fed.outset
         /\ got.rest = fed.tail
         /\ fed.out = <<>> /\ fed.outset = {} => got.l = <<>> /\ got.set = {}

\* C12 witness: the vector decoder was fed *-1\r\n and raised a key error.
C12_Witness ==
  /\ fed.decoder = "multi_bulk"
  /\ fed.head = nil_multi_bulk
  /\ got.err = "key_error"
  /\ got.what = "no such key"

\* C12, the other case reached: the set decoder was fed *0\r\n.
C12_WitnessEmpty ==
  /\ fed.decoder = "multi_bulk_set"
  /\ fed.head = <<"*", "0", CR, LF>>
  /\ fed.outset = {}
  /\ got.err = "none"
  /\ got.set = {}

Range(f) == {f[i] : i \in DOMAIN f}

\* C13: a multi-bulk reply with count M >= 0 is decoded by exactly M bulk
\* decodes taken in stream order: the M values are appended to the vector
\* in that order (added to the set, for the set variant), an element sent as
\* $-1 stands at its position as the missing sentinel, M is returned and the
\* bytes after the M-th element stay unread.
C13_ElementsInOrder ==
  \A elems \in ElemLists :
    fed.head = multi_bulk_of(elems) =>
      /\ fed.decoder = "multi_bulk" =>
           /\ Returned
           /\ got.n = Len(elems)
           /\ got.l = fed.out \o ElementValues(elems)
           /\ got.rest = fed.tail
      /\ fed.decoder = "multi_bulk_set" =>
           /\ Returned
           /\ got.n = Len(elems)
           /\ got.set = fed.outset \cup Range(ElementValues(elems))
           /\ got.rest = fed.tail

\* C13 witness: *2\r\n$1\r\na\r\n$1\r\nb\r\n decoded to [a, b].
C13_Witness ==
  /\ fed.decoder = "multi_bulk"
  /\ fed.head = <<"*", "2", CR, LF, "$", "1", CR, LF, "a", CR, LF,
                  "$", "1", CR, LF, "b", CR, LF>>
  /\ fed.out = <<>>
  /\ fed.tail # <<>>
  /\ got.l = <<<<"a">>, <<"b">>>>

\* C13, a missing element reached: *2\r\n$-1\r\n$1\r\nb\r\n decoded to
\* [missing, b].
C13_WitnessNil ==
  /\ fed.decoder = "multi_bulk"
  /\ fed.head = multi_bulk_of(<<Nil, <<"b">>>>)
  /\ got.l = fed.out \o <<missing_value, <<"b">>>>

\* the line a decoder reads first: the bytes up to the first LF, without the
\* CR and LF that end them
FirstLine(stream) ==
  LET eol == CHOOSE i \in 1..Len(stream) :
               stream[i] = LF /\ \A j \in 1..(i - 1) : stream[j] # LF
  IN  rtrim(SubSeq(stream, 1, eol), {CR, LF})

IntLine(text) == <<":">> \o text \o <<CR, LF>>

\* C14: the integer decoder fed :<text> returns the signed integer the text
\* spells (:42 gives 42, :-7 gives -7) and raises a protocol error when the
\* text spells none (:abc, : alone).
C14_IntegerOrProtocolError ==
  fed.decoder = "int" =>
    /\ fed.head = IntLine(<<"4", "2">>) => Returned /\ got.n = 42
    /\ fed.head = IntLine(<<"-", "7">>) => Returned /\ got.n = -7
    /\ fed.head \in {IntLine(<<"a", "b", "c">>), IntLine(<<>>)} =>
         Raised("protocol_error")

\* C14, what the code does: a text that spells an integer is returned as
\* that integer; any other text leaves the decoder as boost::bad_lexical_cast,
\* with the line consumed.
C14_IntegerOrBadCast ==
  fed.decoder = "int" =>
    \A text \in IntTexts :
      fed.head = IntLine(text) =>
        /\ got.rest = fed.tail
        /\ IF lexical_cast_int(text).ok
           THEN Returned /\ lexical_cast_string(got.n) = text
           ELSE Raised("bad_lexical_cast")

\* C14 reached: :abc was fed to the integer decoder.
C14_Witness ==
  /\ fed.decoder = "int"
  /\ fed.head = <<":", "a", "b", "c", CR, LF>>
  /\ got.err = "bad_lexical_cast"

Decoders ==
  {"status", "ok", "int", "int_ok", "bulk", "multi_bulk", "multi_bulk_set"}

\* C15: whichever reply a decoder expects, an error line -<token> <message>
\* makes it raise a protocol error whose message is <message>.
C15_ErrorMessageCarried ==
  fed.decoder \in Decoders =>
    \A token \in ErrorTokens \ {<<>>}, message \in ErrorMessages \ {<<>>} :
      fed.head = error_line(token, message) \o <<CR, LF>> =>
        /\ Raised("protocol_error")
        /\ got.what = ""
        /\ got.text = message

\* C15, what the code does: every decoder raises a protocol error on an
\* error line, but only the status decoder (and recv_ok_reply_ through it)
\* carries the message, and only when the line begins with "-ERR "; every
\* other case carries the decoder's own "unexpected prefix" text.
C15_ErrorMessageStatusOnly ==
  fed.decoder \in Decoders =>
    \A token \in ErrorTokens, message \in ErrorMessages :
      fed.head = error_line(token, message) \o <<CR, LF>> =>
        /\ Raised("protocol_error")
        /\ got.rest = fed.tail
        /\ IF fed.decoder \in {"status", "ok"} /\ token = <<"E", "R", "R">>
           THEN IF message = <<>> THEN got.what = "unknown error"
                ELSE got.what = "" /\ got.text = message
           ELSE /\ got.text = <<>>
                /\ got.what =
                     CASE fed.decoder \in {"status", "ok"} ->
                            "unexpected prefix for status reply"
                       [] fed.decoder \in {"int", "int_ok"} ->
                            "unexpected prefix for integer reply"
                       [] OTHER -> "unexpected prefix for bulk reply"

\* C15 reached: -ERR x was fed to the integer decoder.
C15_Witness ==
  /\ fed.decoder = "int"
  /\ fed.head = <<"-", "E", "R", "R", " ", "x", CR, LF>>
  /\ got.err = "protocol_error"
  /\ got.what = "unexpected prefix for integer reply"

\* the prefix byte a decoder expects on the first line
ExpectedPrefix(decoder) ==
  CASE decoder \in {"status", "ok"} -> "+"
    [] decoder \in {"int", "int_ok"} -> ":"
    [] decoder = "bulk" -> "$"
    [] OTHER -> "*"

\* C16: a decoder that reads an empty line, or a line whose first byte is
\* not the prefix it expects, raises a protocol error and returns no value:
\* no integer, no string, nothing added to the caller's container.
C16_UnexpectedPrefix ==
  (/\ fed.decoder \in Decoders
   /\ \/ FirstLine(fed.head \o fed.tail) = <<>>
      \/ FirstLine(fed.head \o fed.tail)[1] # ExpectedPrefix(fed.decoder))
    => /\ Raised("protocol_error")
       /\ got.n = 0
       /\ got.s = <<>>
       /\ got.l = fed.out
       /\ got.set = fed.outset

\* C16 witness: the bulk decoder read an empty line.
C16_Witness ==
  /\ fed.decoder = "bulk"
  /\ fed.head = <<CR, LF>>
  /\ got.err = "protocol_error"
  /\ got.what = "unexpected prefix for bulk reply"

\* C16, the other case reached: the integer decoder read +OK.
C16_WitnessOtherPrefix ==
  /\ fed.decoder = "int"
  /\ fed.head = <<"+", "O", "K", CR, LF>>
  /\ got.err = "protocol_error"
  /\ got.what = "unexpected prefix for integer reply"

\* ------------------------------------------------------- the readers' inputs
\* bounds: bytes of a short stream, recv calls of one read that return -1
\* with EINTR, recv calls of one read that return -1 with another errno
MaxStream == 3

MaxInterrupted == 1

MaxFailed == 1

LineBytes == {"a", CR, LF}

ShortStreams == SeqsUpTo(LineBytes, MaxStream)

\* lines that end around the edge of the 64-byte window
LongStreams ==
  {Repeat(<<"a">>, k) \o t \o <<"b">> :
     k \in {buffer_size - 1, buffer_size}, t \in Terminators}

\* a max_size below the length of some lines, and the default
SmallMaxSize == 2

MaxSizes == {SmallMaxSize, default_max_size}

\* read_n's n
ReadSizes == {0, 1, 2, buffer_size + 1}

\* the sockets a read is made on: short streams on a socket that may fail,
\* long ones on a socket that does not
ShortSockets ==
  [data : ShortStreams, fin : BOOLEAN, signals : 0..MaxInterrupted,
   faults : 0..MaxFailed]

LongSockets ==
  [data : LongStreams, fin : {FALSE}, signals : {0}, faults : {0}]

\* the calls made: a socket with max_size, a socket with n
ReadLineCalls ==
  (ShortSockets \X MaxSizes) \cup (LongSockets \X {default_max_size})

ReadNCalls ==
  (ShortSockets \X ReadSizes) \cup (LongSockets \X {buffer_size + 1})

\* what the stack holds behind buffer, up to the first LF in it
StaleBytes == <<"g", LF>>

\* ------------------------------------------------------- the readers' steps
Drop(str, k) == SubSeq(str, k + 1, Len(str))

\* while (total_bytes_read < max_size && !found_delimiter); after the loop
\* line = oss.str(); return rtrim(line, REDIS_LBR)
read_line_test(r) ==
  IF r.total_bytes_read < r.max_size /\ ~r.found_delimiter
  THEN [r EXCEPT !.pc = "peek"]
  ELSE [r EXCEPT !.pc = "done", !.line = rtrim(r.oss, {CR, LF})]

\* A plausible slip: the whole window is taken although it holds an LF.
to_read_whole_window(eol, bytes_received) == bytes_received

\* to_read = bytes_received; if (eol) to_read = eol - buffer + 1
to_read_of(eol, bytes_received) == IF eol # 0 THEN eol ELSE bytes_received

\* read_line(socket, max_size) is entered
CallReadLine(stream, fin, signals, faults, max_size) ==
  /\ reader.pc = "idle"
  /\ max_size > 0
  /\ sock' = [data |-> stream, fin |-> fin, signals |-> signals,
              faults |-> faults]
  /\ reader' = read_line_test(
       [NoCall EXCEPT !.fn = "read_line", !.max_size = max_size,
                      !.stream = stream])
  /\ UNCHANGED notReader

\* recv(socket, buffer, buffer_size, MSG_PEEK) returns k > 0: the first k
\* bytes, which stay on the socket; memchr, to_read, oss.write
RlPeek(k) ==
  /\ reader.fn = "read_line" /\ reader.pc = "peek"
  /\ k \in 1..Min(buffer_size, Len(sock.data))
  /\ reader' =
       [reader EXCEPT
          !.pc = "consume",
          !.bytes_received = k,
          !.to_read = to_read_of(memchr_lf(SubSeq(sock.data, 1, k)), k),
          !.found_delimiter = memchr_lf(SubSeq(sock.data, 1, k)) # 0,
          !.oss = @ \o SubSeq(sock.data, 1,
                    to_read_of(memchr_lf(SubSeq(sock.data, 1, k)), k))]
  /\ UNCHANGED sock
  /\ UNCHANGED notReader

\* the peek returns 0: the peer has closed and nothing is left to read
RlPeekClosed ==
  /\ reader.fn = "read_line" /\ reader.pc = "peek"
  /\ sock.data = <<>> /\ sock.fin
  /\ reader' = [reader EXCEPT !.pc = "done", !.bytes_received = 0,
                              !.err = "connection_error",
                              !.what = "connection was closed",
                              !.lost = TRUE]
  /\ UNCHANGED sock
  /\ UNCHANGED notReader

\* the peek returns -1 with errno EINTR: the do-while calls recv again
RlPeekInterrupted ==
  /\ reader.fn = "read_line" /\ reader.pc = "peek"
  /\ sock.signals > 0
  /\ sock' = [sock EXCEPT !.signals = @ - 1]
  /\ reader' = [reader EXCEPT !.interrupted = @ + 1, !.bytes_received = -1]
  /\ UNCHANGED notReader

\* the peek returns -1 with another errno.  bytes_received is -1, which is
\* not 0: no exception.  memchr(buffer, '\n', -1) searches buffer, which holds
\* no LF, and the memory behind it: the process dies there, or an LF is found
\* behind buffer and everything up to it is written to oss.
RlPeekFailed ==
  /\ reader.fn = "read_line" /\ reader.pc = "peek"
  /\ sock.faults > 0
  /\ sock' = [sock EXCEPT !.faults = @ - 1]
  /\ \/ reader' = [reader EXCEPT !.pc = "done", !.err = "undefined",
                                 !.bytes_received = -1,
                                 !.failed = @ + 1, !.lost = TRUE]
     \/ reader' = [reader EXCEPT !.pc = "consume",
                                 !.bytes_received = -1,
                                 !.to_read = buffer_size + Len(StaleBytes),
                                 !.found_delimiter = TRUE,
                                 !.oss = @ \o StaleBytes,
                                 !.failed = @ + 1, !.lost = TRUE]
  /\ UNCHANGED notReader

\* recv(socket, buffer, to_read, 0) removes the bytes; then the loop test
RlConsume ==
  /\ reader.fn = "read_line" /\ reader.pc = "consume"
  /\ sock.data # <<>>
  /\ sock' = [sock EXCEPT !.data = Drop(@, Min(reader.to_read, Len(@)))]
  /\ reader' = read_line_test(
       [reader EXCEPT !.bytes_received = Min(reader.to_read, Len(sock.data))])
  /\ UNCHANGED notReader

\* the removing recv returns -1 with errno EINTR and is called again
RlConsumeInterrupted ==
  /\ reader.fn = "read_line" /\ reader.pc = "consume"
  /\ sock.signals > 0
  /\ sock' = [sock EXCEPT !.signals = @ - 1]
  /\ reader' = [reader EXCEPT !.interrupted = @ + 1, !.bytes_received = -1]
  /\ UNCHANGED notReader

\* the removing recv returns -1 with another errno, or 0: its result is not
\* looked at, nothing is removed, and the loop test follows
RlConsumeFailed ==
  /\ reader.fn = "read_line" /\ reader.pc = "consume"
  /\ sock.faults > 0
  /\ sock' = [sock EXCEPT !.faults = @ - 1]
  /\ reader' = read_line_test(
       [reader EXCEPT !.bytes_received = -1, !.failed = @ + 1,
                      !.lost = @ \/ ~reader.found_delimiter])
  /\ UNCHANGED notReader

\* while (bytes_read != n); after the loop std::string str(buffer, n)
read_n_test(r) ==
  IF r.bytes_read # r.n THEN [r EXCEPT !.pc = "recv"]
  ELSE [r EXCEPT !.pc = "done", !.line = SubSeq(r.buffer, 1, r.n)]

\* A plausible slip: every recv asks for n bytes.
recv_length_whole(n, bp) == n

\* the length argument of recv: n - (bp - buffer)
recv_length(n, bp) == n - bp

\* the k bytes of chunk stored at bp: a byte stored in front of buffer is
\* not part of it
stored(buffer, bp, chunk) ==
  IF bp >= 0 THEN SubSeq(buffer, 1, bp) \o chunk
  ELSE Drop(chunk, Min(0 - bp, Len(chunk)))

\* read_n(socket, n) is entered
CallReadN(stream, fin, signals, faults, n) ==
  /\ reader.pc = "idle"
  /\ n >= 0
  /\ sock' = [data |-> stream, fin |-> fin, signals |-> signals,
              faults |-> faults]
  /\ reader' = read_n_test(
       [NoCall EXCEPT !.fn = "read_n", !.n = n, !.stream = stream])
  /\ UNCHANGED notReader

\* recv(socket, bp, n - (bp - buffer), 0) returns k > 0 and removes k bytes
RnRecv(k) ==
  /\ reader.fn = "read_n" /\ reader.pc = "recv"
  /\ k \in 1..Min(recv_length(reader.n, reader.bp), Len(sock.data))
  /\ sock' = [sock EXCEPT !.data = Drop(@, k)]
  /\ reader' = read_n_test(
       [reader EXCEPT
          !.bytes_received = k,
          !.buffer = stored(@, reader.bp, SubSeq(sock.data, 1, k)),
          !.bytes_read = @ + k,
          !.bp = @ + k])
  /\ UNCHANGED notReader

\* recv returns 0
RnClosed ==
  /\ reader.fn = "read_n" /\ reader.pc = "recv"
  /\ sock.data = <<>> /\ sock.fin
  /\ reader' = [reader EXCEPT !.pc = "done", !.bytes_received = 0,
                              !.err = "connection_error",
                              !.what = "connection was closed",
                              !.lost = TRUE]
  /\ UNCHANGED sock
  /\ UNCHANGED notReader

\* recv returns -1 with errno EINTR and is called again
RnInterrupted ==
  /\ reader.fn = "read_n" /\ reader.pc = "recv"
  /\ sock.signals > 0
  /\ sock' = [sock EXCEPT !.signals = @ - 1]
  /\ reader' = [reader EXCEPT !.interrupted = @ + 1, !.bytes_received = -1]
  /\ UNCHANGED notReader

\* recv returns -1 with another errno: -1 is added to bytes_read and to bp
RnFailed ==
  /\ reader.fn = "read_n" /\ reader.pc = "recv"
  /\ sock.faults > 0
  /\ sock' = [sock EXCEPT !.faults = @ - 1]
  /\ reader' = read_n_test(
       [reader EXCEPT !.bytes_received = -1,
                      !.bytes_read = @ - 1, !.bp = @ - 1,
                      !.failed = @ + 1, !.lost = TRUE])
  /\ UNCHANGED notReader

\* bp points in front of buffer and recv stores there: the heap block's
\* header is overwritten, and the process may die of it
RnStoreOutside ==
  /\ reader.fn = "read_n" /\ reader.pc = "recv"
  /\ reader.bp < 0
  /\ sock.data # <<>>
  /\ reader' = [reader EXCEPT !.pc = "done", !.err = "undefined"]
  /\ UNCHANGED sock
  /\ UNCHANGED notReader

ReaderInit == CodecIdle /\ ClientAbsent /\ DecoderIdle /\ ReaderIdle

ReaderNext ==
  \/ \E c \in ReadLineCalls :
       CallReadLine(c[1].data, c[1].fin, c[1].signals, c[1].faults, c[2])
  \/ \E k \in 1..buffer_size : RlPeek(k)
  \/ RlPeekClosed
  \/ RlPeekInterrupted
  \/ RlPeekFailed
  \/ RlConsume
  \/ RlConsumeInterrupted
  \/ RlConsumeFailed
  \/ \E c \in ReadNCalls :
       CallReadN(c[1].data, c[1].fin, c[1].signals, c[1].faults, c[2])
  \/ \E k \in 1..(buffer_size + 2) : RnRecv(k)
  \/ RnClosed
  \/ RnInterrupted
  \/ RnFailed
  \/ RnStoreOutside

SpecReader == ReaderInit /\ [][ReaderNext]_vars

\* ------------------------------------------------- claims about the readers
HasLF(stream) == \E i \in 1..Len(stream) : stream[i] = LF

\* the position of the first LF of a stream that has one
LineEnd(stream) ==
  CHOOSE i \in 1..Len(stream) :
    stream[i] = LF /\ \A j \in 1..(i - 1) : stream[j] # LF

\* how many bytes the call has removed from the socket
Removed == Len(reader.stream) - Len(sock.data)

Untouched == sock.data = Drop(reader.stream, Removed)

\* line is what is left of str once its trailing CR and LF bytes are cut
Stripped(line, str) ==
  /\ line = <<>> \/ line[Len(line)] \notin {CR, LF}
  /\ Len(line) <= Len(str)
  /\ line = SubSeq(str, 1, Len(line))
  /\ \A i \in (Len(line) + 1)..Len(str) : str[i] \in {CR, LF}

C17_WitnessLF ==
  /\ reader.fn = "read_line" /\ reader.pc = "done"
  /\ reader.stream = <<"a", LF, "a">>
  /\ reader.interrupted = 1
  /\ reader.line = <<"a">>
  /\ sock.data = <<"a">>

\* C18: once max_size bytes have been read without an LF among them,
\* read_line has stopped and returned a blank string.
C18_BudgetStops ==
  (/\ reader.fn = "read_line" /\ reader.failed = 0
   /\ Removed >= reader.max_size
   /\ ~HasLF(SubSeq(reader.stream, 1, Removed)))
    => /\ reader.pc = "done"
       /\ reader.err = "none"
       /\ reader.line = <<>>

\* C18, what the code does: total_bytes_read stays 0, so the loop is left
\* only by an LF or an exception, and a line longer than max_size is
\* returned whole.
C18_NoBudget ==
  reader.fn = "read_line" =>
    /\ reader.total_bytes_read = 0
    /\ (reader.pc = "done" /\ reader.err = "none" /\ reader.failed = 0) =>
         /\ HasLF(reader.stream)
         /\ Removed = LineEnd(reader.stream)

\* C18 reached: with max_size = 2 the two bytes of aa\n were read without
\* an LF, and the line aa was returned.
C18_Witness ==
  /\ reader.fn = "read_line" /\ reader.pc = "done"
  /\ reader.max_size = 2
  /\ reader.stream = <<"a", "a", LF>>
  /\ reader.line = <<"a", "a">>
  /\ Removed = 3

\* C19: when a recv returns 0 or fails with an errno other than EINTR
\* before read_line has found an LF, read_line raises a connection error and
\* returns no line.
C19_FailureRaises ==
  (reader.fn = "read_line" /\ reader.pc = "done" /\ reader.lost) =>
    /\ reader.err = "connection_error"
    /\ reader.line = <<>>

\* C19, what the code does: a recv that returns 0 at the peek raises the
\* connection error; a recv that fails never does.
C19_OnlyClosedRaises ==
  (reader.fn = "read_line" /\ reader.pc = "done") =>
    /\ reader.err = "connection_error" =>
         /\ reader.bytes_received = 0
         /\ sock.fin /\ sock.data = <<>>
         /\ reader.line = <<>>
    /\ (reader.failed = 0 /\ ~HasLF(reader.stream)) =>
         reader.err = "connection_error"

\* C19 reached: the peek failed and read_line returned a line.
C19_Witness ==
  /\ reader.fn = "read_line" /\ reader.pc = "done"
  /\ reader.failed = 1
  /\ reader.lost
  /\ reader.err = "none"

C20_WitnessLong ==
  /\ reader.fn = "read_n" /\ reader.pc = "done"
  /\ reader.n = buffer_size + 1
  /\ reader.bytes_received < reader.n
  /\ Len(reader.line) = reader.n

\* C21: read_n returns only after n bytes were received: once the peer has
\* closed, or a recv has failed with an errno other than EINTR, before n
\* bytes were delivered, read_n has ended with a connection error; it has
\* returned nothing and is not in its loop any more.
C21_NoPartialRead ==
  (reader.fn = "read_n" /\ reader.lost) =>
    /\ reader.pc = "done"
    /\ reader.err = "connection_error"
    /\ reader.line = <<>>

\* C21, what the code does: a recv of 0 ends read_n with a connection error
\* and no result; a failed recv never does, it moves bytes_read and bp back
\* by one and the loop goes on.
C21_OnlyClosedRaises ==
  reader.fn = "read_n" =>
    /\ reader.err = "connection_error" =>
         /\ reader.pc = "done"
         /\ reader.bytes_received = 0
         /\ sock.fin /\ sock.data = <<>>
         /\ reader.line = <<>>
    /\ (reader.failed = 0 /\ reader.pc = "done"
        /\ Len(reader.stream) < reader.n) =>
         reader.err = "connection_error"
    /\ reader.failed = 0 => reader.bytes_read = Removed /\ reader.bp = Removed
    /\ (reader.failed = 1 /\ reader.err = "none") =>
         reader.bytes_read = Removed - 1 /\ reader.bp = Removed - 1

\* C21 reached: after a failed recv and two more bytes, read_n(socket, 2)
\* returned a string that does not hold the first byte received.
C21_Witness ==
  /\ reader.fn = "read_n" /\ reader.pc = "done"
  /\ reader.n = 2
  /\ reader.failed = 1
  /\ reader.err = "none"
  /\ reader.stream = <<"a", CR, LF>>
  /\ reader.line # <<"a", CR>>

StatusLine(text) == <<"+">> \o text \o <<CR, LF>>

\* C27: the status decoder fed +<text> returns <text>; recv_ok_reply_, which
\* is all an operation that expects an acknowledgement does with the reply,
\* returns normally when <text> is exactly OK and raises a protocol error
\* for every other status text.
C27_StatusAndOk ==
  \A text \in StatusTexts :
    fed.head = StatusLine(text) =>
      /\ fed.decoder = "status" =>
           /\ Returned
           /\ got.s = text
           /\ got.rest = fed.tail
      /\ fed.decoder = "ok" =>
           /\ Returned <=> text = <<"O", "K">>
           /\ ~Returned => Raised("protocol_error")
           /\ got.rest = fed.tail

\* C27 witness: +OK\r\n was accepted as the acknowledgement.
C27_Witness ==
  /\ fed.decoder = "ok"
  /\ fed.head = <<"+", "O", "K", CR, LF>>
  /\ fed.tail # <<>>
  /\ got.err = "none"

\* C27, a status text other than OK reached: +PONG raised the protocol
\* error.
C27_WitnessOther ==
  /\ fed.decoder = "ok"
  /\ fed.head = <<"+", "P", "O", "N", "G", CR, LF>>
  /\ got.err = "protocol_error"
  /\ got.what = "expected OK response"

HeaderLine(prefix, length) ==
  <<prefix>> \o lexical_cast_string(length) \o <<CR, LF>>

\* declared lengths below -1
NegativeLengths == {-2, -3, -5}

\* C29: a bulk or multi-bulk header that declares a length below -1 makes
\* the decoder raise a protocol error.
C29_NegativeLengthRejected ==
  \A length \in NegativeLengths :
    /\ (fed.decoder = "bulk" /\ fed.head = HeaderLine("$", length)) =>
         Raised("protocol_error")
    /\ (fed.decoder \in {"multi_bulk", "multi_bulk_set"}
        /\ fed.head = HeaderLine("*", length)) =>
         Raised("protocol_error")

\* C29, what the code does.  Bulk: $-2 gives read_n(0), an empty string and
\* the protocol error for it; $-3 gives read_n(-1), which is undefined;
\* anything lower ends in std::bad_alloc.  Multi-bulk: the vector variant
\* ends in std::length_error from reserve as long as the vector holds fewer
\* elements than the count takes off; the set variant runs its loop zero
\* times and returns the negative count.
C29_NegativeLengthOutcomes ==
  \A length \in NegativeLengths :
    /\ (fed.decoder = "bulk" /\ fed.head = HeaderLine("$", length)) =>
         /\ got.rest = fed.tail
         /\ got.err = CASE length = -2 -> "protocol_error"
                        [] length = -3 -> "undefined"
                        [] OTHER -> "bad_alloc"
    /\ (fed.decoder = "multi_bulk" /\ fed.head = HeaderLine("*", length)) =>
         /\ got.rest = fed.tail
         /\ Raised("length_error")
         /\ got.l = fed.out
    /\ (fed.decoder = "multi_bulk_set"
        /\ fed.head = HeaderLine("*", length)) =>
         /\ got.rest = fed.tail
         /\ Returned
         /\ got.n = length
         /\ got.set = fed.outset

\* C29 reached: *-3 was fed to the set decoder, which returned -3.
C29_Witness ==
  /\ fed.decoder = "multi_bulk_set"
  /\ fed.head = <<"*", "-", "3", CR, LF>>
  /\ got.err = "none"
  /\ got.n = -3

\* the number of removals a count asks for: count > 0 asks for count from the
\* head, count < 0 for -count from the tail, 0 for every match
Requested(count) == IF count < 0 THEN 0 - count ELSE count

\* C28: lrem_exact raises a value error exactly when the server reports
\* fewer removals than the count asked for, and returns normally otherwise.
C28_FewerThanRequested ==
  (last.op = "lrem_exact" /\ last.err \in {"none", "value_error"}
   /\ last.log[1].unread = 0) =>
    (last.err = "value_error" <=> last.n < Requested(last.acc))

\* C28, what the code does: the value error is raised exactly when the
\* reported number differs from the count, whatever its sign.
C28_DiffersFromCount ==
  (last.op = "lrem_exact" /\ last.err \in {"none", "value_error"}) =>
    (last.err = "value_error" <=> last.n # last.acc)

\* C28 reached: lrem_exact(key, -1, value) raised the value error although
\* the server reported the one removal asked for.
C28_Witness ==
  /\ last.op = "lrem_exact"
  /\ last.acc = -1
  /\ last.n = 1
  /\ last.err = "value_error"
  /\ last.log[1].unread = 0

\* the four kinds of error derived from redis_error
RedisErrors == {"connection_error", "protocol_error", "key_error", "value_error"}

\* an operation that ended by raising: not one that returned, not one still
\* waiting for bytes, not one whose behaviour is undefined
Surfaced == last.err \notin {"none", "blocked", "undefined"}

\* C25: every error a client operation surfaces is a connection, protocol,
\* key or value error, the router's rejections included.
C25_FourKinds == Surfaced => last.err \in RedisErrors

\* C25, what the code does: the router's rejections leave the operation as
\* std::runtime_error, which is none of the four kinds, before any write.
C25_RouterRaisesRuntimeError ==
  Surfaced => \/ last.err \in RedisErrors
              \/ last.err = "runtime_error" /\ last.log = <<>>

\* C25 reached: a cross-connection rename was rejected by the router.
C25_Witness ==
  /\ last.op = "rename"
  /\ last.err = "runtime_error"
  /\ last.log = <<>>

\* the pair vector holding the same keys and values as two vectors
PairsOf(keys_, values) == [i \in 1..Len(keys_) |-> <<keys_[i], values[i]>>]

\* what mset(pair vector) does to the client when called in this state
mset_pairs_outcome(keys_, answers) ==
  mset_exchange(
    mset_collect(Begin, PairsOf(keys_, [i \in 1..Len(keys_) |-> Value]), 1),
    answers)

\* C30: whatever mset(keys, values) did, mset(pair vector) called in the same
\* state with the same pairs does too: the same commands written to the same
\* connections, the same replies read, the same outcome.
C30_BothFormsAgree ==
  [][last'.op = "mset_vectors" =>
       \E answers \in [Sockets -> OkAnswers] :
         /\ last'.err = mset_pairs_outcome(last'.keys, answers).err
         /\ last'.log = mset_pairs_outcome(last'.keys, answers).log
         /\ inbox' = mset_pairs_outcome(last'.keys, answers).inbox]_vars

\* the connections the keys map to
KeySockets(keys_) == {get_socket(keys_[i]).socket : i \in 1..Len(keys_)}

\* C30, what the code does: mset(keys, values) agrees with the pair form when
\* its keys map to one connection; with keys on different connections it
\* writes nothing and leaves as std::runtime_error, where the pair form
\* writes one MSET per connection.
C30_VectorsFormRejectsCrossShard ==
  [][last'.op = "mset_vectors" =>
       IF Cardinality(KeySockets(last'.keys)) = 1
       THEN \E answers \in [Sockets -> OkAnswers] :
              /\ last'.err = mset_pairs_outcome(last'.keys, answers).err
              /\ last'.log = mset_pairs_outcome(last'.keys, answers).log
              /\ inbox' = mset_pairs_outcome(last'.keys, answers).inbox
       ELSE /\ last'.err = "runtime_error"
            /\ last'.log = <<>>
            /\ inbox' = inbox
            /\ \A answers \in [Sockets -> OkAnswers] :
                 Len(SelectSeq(mset_pairs_outcome(last'.keys, answers).log, IsSend))
                   = Cardinality(KeySockets(last'.keys))]_vars

\* C30 reached: mset(keys, values) with keys on two connections was refused
\* before any write.
C30_Witness ==
  /\ last.op = "mset_vectors"
  /\ Cardinality(KeySockets(last.keys)) = 2
  /\ last.err = "runtime_error"
  /\ last.log = <<>>

\* the connection the operation's last write or read was on
LastSocket == last.log[Len(last.log)].socket

Handles == {connections_[i].socket : i \in 1..Len(connections_)}

\* C24: once a connection error has been raised on a connection, or shutdown
\* has made its peer close it, no connection's handle is that descriptor.
C24_DeadHandleDropped ==
  /\ (last.err = "connection_error" /\ last.log # <<>>)
       => LastSocket \notin Handles
  /\ (last.op = "shutdown" /\ last.err = "none") => Handles \cap closed = {}

\* C24, what the code does: a handle is assigned once, by the constructor,
\* and kept whatever happens to the connection; the operation that raises a
\* connection error leaves the descriptor it failed on in place.
C24_HandleKept ==
  /\ ANET_ERR \notin Handles
  /\ (last.err = "connection_error" /\ last.log # <<>>)
       => LastSocket \in Handles
  /\ [i \in 1..Len(connections_) |-> connections_[i].socket]
       = [i \in 1..Len(connections_) |-> 2 + i]

\* C24 reached: after the peer has gone, an operation wrote to the
\* descriptor, was refused, and the connection still holds it.
C24_Witness ==
  /\ last.op = "get"
  /\ last.err = "connection_error"
  /\ last.log[1].ev = "fail"
  /\ last.log[1].socket \in Handles \cap closed

\* the write of the i-th event was refused, or its read found the peer gone
\* and nothing left to read: send_ or read_line raises connection_error
RaisesConnectionError(i) ==
  \/ last.log[i].ev = "fail"
  \/ /\ last.log[i].ev = "recv"
     /\ last.log[i].socket \in closed
     /\ last.log[i].unread = 0

\* the operation ended at its i-th event with the connection error
AbortedAt(i) == i = Len(last.log) /\ last.err = "connection_error"

\* C26: a connection error raised by a write or a read ends the operation
\* there and reaches the caller, in every operation.
C26_NoOperationCatches ==
  \A i \in 1..Len(last.log) : RaisesConnectionError(i) => AbortedAt(i)

\* C26, amended: a connection error raised by a write ends the operation
\* there and reaches the caller, and so does one raised by a read in every
\* operation but shutdown; shutdown catches the connection error of its
\* read and goes on to the next connection.
C26_OnlyShutdownCatches ==
  \A i \in 1..Len(last.log) :
    RaisesConnectionError(i) =>
      IF last.op = "shutdown" /\ last.log[i].ev = "recv"
      THEN /\ ~AbortedAt(i)
           /\ i < Len(last.log) => last.log[i + 1].socket # last.log[i].socket
      ELSE AbortedAt(i)

\* C26 reached: dbsize on two connections was refused at its first write
\* and wrote to no other connection.
C26_Witness ==
  /\ last.op = "dbsize"
  /\ Len(connections_) = 2
  /\ last.err = "connection_error"
  /\ Len(last.log) = 1
  /\ last.log[1].ev = "fail"

\* C26 reached: a read found the peer gone and ended get.
C26_WitnessRead ==
  /\ last.op = "get"
  /\ last.err = "connection_error"
  /\ Len(last.log) = 2
  /\ last.log[2].ev = "recv"

\* C26 reached: shutdown went on to the second connection after the read on
\* the first had raised the connection error.
C26_WitnessShutdown ==
  /\ last.op = "shutdown"
  /\ last.err = "none"
  /\ Len(last.log) = 4
  /\ RaisesConnectionError(2)
  /\ last.log[3].socket # last.log[2].socket

\* ------------------------------------------------- the constructors' inputs
\* the servers a caller can name, each with a database index
Endpoints ==
  {[host |-> "localhost", port |-> 6378 + i, dbindex |-> d] :
     i \in 1..MaxConns, d \in {0, 1}}

\* the ranges handed to base_client(begin, end): none, one or more endpoints
EndpointLists == UNION {[1..k -> Endpoints] : k \in 0..MaxConns}

\* SELECT is answered +OK, refused (-ERR invalid DB index), or the server
\* closes the connection without an answer
SelectAnswers == {status_reply(REDIS_STATUS_REPLY_OK), error_reply, <<>>}

\* ------------------------------------------------- the constructors' steps
\* connection_data::connection_data
connection_data(host, port, dbindex) ==
  [host |-> host, port |-> port, dbindex |-> dbindex, socket |-> ANET_ERR]

\* A plausible slip: a range without endpoints is taken for a client.
range_end_unchecked(conns) == "none"

\* if (connections_.empty()) throw std::runtime_error("No connections given!")
range_end(conns) == IF conns = <<>> THEN "runtime_error" ELSE "none"

\* A plausible slip: every connection selects database 0.
select_con_zero(ctx, dbindex, socket, answer) ==
  recv_ok(
    IF answer = <<>>
    THEN peer_closes(send_(ctx, socket,
                           makecmd_str(shl_int(makecmd(<<"S", "E", "L", "E", "C", "T">>), 0)),
                           1, answer), socket)
    ELSE send_(ctx, socket,
               makecmd_str(shl_int(makecmd(<<"S", "E", "L", "E", "C", "T">>), 0)),
               1, answer),
    socket)

\* base_client::select(int_type dbindex, const connection_data & con)
select_con(ctx, dbindex, socket, answer) ==
  recv_ok(
    IF answer = <<>>
    THEN peer_closes(send_(ctx, socket,
                           makecmd_str(shl_int(makecmd(<<"S", "E", "L", "E", "C", "T">>), dbindex)),
                           1, answer), socket)
    ELSE send_(ctx, socket,
               makecmd_str(shl_int(makecmd(<<"S", "E", "L", "E", "C", "T">>), dbindex)),
               1, answer),
    socket)

\* The constructor throws: the members built so far are destroyed, and no
\* client exists (the descriptors opened so far are not closed).
construction_fails(kind, met) ==
  /\ ctor' = [ctor EXCEPT !.pc = "failed", !.err = kind, !.met = met]
  /\ connections_' = <<>>

\* explicit base_client(host, port, dbindex): connection_data con; con.host
\* = host; con.port = port; con.dbindex = dbindex;
ConstructSingle(host, port, dbindex) ==
  /\ ctor = NoCtor
  /\ supplied' = <<[host |-> host, port |-> port, dbindex |-> dbindex]>>
  /\ ctor' = [ctor EXCEPT !.form = "single", !.pc = "init", !.i = 1,
                          !.con = connection_data(host, port, dbindex)]
  /\ UNCHANGED <<connections_, inbox, closed, last, routed>>

\* base_client(begin, end)
ConstructRange(endpoints) ==
  /\ ctor = NoCtor
  /\ supplied' = endpoints
  /\ ctor' = [ctor EXCEPT !.form = "range", !.pc = "loop", !.i = 1]
  /\ UNCHANGED <<connections_, inbox, closed, last, routed>>

\* while (begin != end) { connection_data con = *begin; ... } and, after the
\* loop, the test for an empty connection set
RangeLoop ==
  /\ ctor.pc = "loop"
  /\ IF ctor.i <= Len(supplied)
     THEN /\ ctor' = [ctor EXCEPT
                        !.pc = "init",
                        !.con = connection_data(supplied[ctor.i].host,
                                                supplied[ctor.i].port,
                                                supplied[ctor.i].dbindex)]
          /\ UNCHANGED connections_
     ELSE IF range_end(connections_) # "none"
     THEN construction_fails(range_end(connections_), ctor.met)
     ELSE /\ ctor' = [ctor EXCEPT !.pc = "done"]
          /\ UNCHANGED connections_
  /\ UNCHANGED <<supplied, inbox, closed, last, routed>>

\* init: con.socket = anetTcpConnect(err, host, port); if (con.socket ==
\* ANET_ERR) throw connection_error(err). A connect that succeeds returns
\* the lowest descriptor not in use.
Connect(connected) ==
  /\ ctor.pc = "init"
  /\ IF connected
     THEN /\ ctor' = [ctor EXCEPT !.pc = "select",
                                  !.con.socket = 3 + Len(connections_)]
          /\ inbox' = inbox @@ ((3 + Len(connections_)) :> <<>>)
          /\ UNCHANGED connections_
     ELSE /\ construction_fails("connection_error",
                                Append(ctor.met, [connected |-> FALSE,
                                                  answer |-> <<>>]))
          /\ UNCHANGED inbox
  /\ UNCHANGED <<supplied, closed, last, routed>>

\* the rest of init, select(con.dbindex, con), and
\* connections_.push_back(con); begin++
Select(answer) ==
  /\ ctor.pc = "select"
  /\ inbox' = select_con(Begin, ctor.con.dbindex, ctor.con.socket, answer).inbox
  /\ closed' = select_con(Begin, ctor.con.dbindex, ctor.con.socket, answer).closed
  /\ IF select_con(Begin, ctor.con.dbindex, ctor.con.socket, answer).err # "none"
     THEN /\ ctor' = [ctor EXCEPT
                        !.pc = "failed",
                        !.err = select_con(Begin, ctor.con.dbindex,
                                           ctor.con.socket, answer).err,
                        !.met = Append(@, [connected |-> TRUE,
                                           answer |-> answer]),
                        !.log = @ \o select_con(Begin, ctor.con.dbindex,
                                                ctor.con.socket, answer).log]
          /\ connections_' = <<>>
     ELSE /\ ctor' = [ctor EXCEPT
                        !.pc = IF ctor.form = "single" THEN "done" ELSE "loop",
                        !.i = @ + 1,
                        !.met = Append(@, [connected |-> TRUE,
                                           answer |-> answer]),
                        !.log = @ \o select_con(Begin, ctor.con.dbindex,
                                                ctor.con.socket, answer).log]
          /\ connections_' = Append(connections_, ctor.con)
  /\ UNCHANGED <<supplied, last, routed>>

\* the descriptors the process holds open: those a connect returned and no
\* close() was called on
OpenDescriptors == DOMAIN inbox

\* ~base_client(): BOOST_FOREACH(connection_data & con, connections_) if
\* (con.socket != ANET_ERR) close(con.socket). It runs for a client whose
\* constructor returned; a constructor that throws leaves no object to
\* destroy.
Destructor ==
  /\ ctor.pc = "done"
  /\ inbox' = [s \in OpenDescriptors \
                     {connections_[i].socket : i \in 1..Len(connections_)}
                 |-> inbox[s]]
  /\ closed' = closed \ {connections_[i].socket : i \in 1..Len(connections_)}
  /\ connections_' = <<>>
  /\ ctor' = [ctor EXCEPT !.pc = "destroyed"]
  /\ UNCHANGED <<supplied, last, routed>>

ConstructInit == CodecIdle /\ ClientAbsent /\ DecoderIdle /\ ReaderIdle

ConstructNext ==
  \/ \E e \in Endpoints :
       ConstructSingle(e.host, e.port, e.dbindex) /\ UNCHANGED notCtor
  \/ \E endpoints \in EndpointLists :
       ConstructRange(endpoints) /\ UNCHANGED notCtor
  \/ RangeLoop /\ UNCHANGED notCtor
  \/ \E connected \in BOOLEAN : Connect(connected) /\ UNCHANGED notCtor
  \/ \E answer \in SelectAnswers : Select(answer) /\ UNCHANGED notCtor
  \/ Destructor /\ UNCHANGED notCtor

SpecConstruct == ConstructInit /\ [][ConstructNext]_vars

\* ------------------------------------------- claims about the constructors
OkAnswer == status_reply(REDIS_STATUS_REPLY_OK)

\* the i-th endpoint's server did not accept the connection, or did not
\* answer SELECT with +OK
EndpointFailed(i) == ~ctor.met[i].connected \/ ctor.met[i].answer # OkAnswer

SelectCommand(dbindex) ==
  makecmd_str(shl_int(makecmd(<<"S", "E", "L", "E", "C", "T">>), dbindex))

\* C22: a constructor that returns has connected every supplied endpoint and
\* switched it to its database index, in the order supplied, and was given
\* at least one endpoint; when an endpoint fails to connect or to select,
\* or none is supplied, the constructor throws and no client exists.
C22_AllOrNothing ==
  /\ ctor.pc = "done" =>
       /\ supplied # <<>>
       /\ Len(connections_) = Len(supplied)
       /\ Len(ctor.met) = Len(supplied)
       /\ Len(ctor.log) = 2 * Len(supplied)
       /\ \A i \in 1..Len(supplied) :
            /\ ~EndpointFailed(i)
            /\ connections_[i].host = supplied[i].host
            /\ connections_[i].port = supplied[i].port
            /\ connections_[i].dbindex = supplied[i].dbindex
            /\ connections_[i].socket # ANET_ERR
            /\ connections_[i].socket \notin closed
            /\ ctor.log[2 * i - 1].ev = "send"
            /\ ctor.log[2 * i - 1].socket = connections_[i].socket
            /\ ctor.log[2 * i - 1].msg = SelectCommand(supplied[i].dbindex)
            /\ ctor.log[2 * i].ev = "recv"
            /\ ctor.log[2 * i].socket = connections_[i].socket
  /\ (\E i \in 1..Len(ctor.met) : EndpointFailed(i)) => ctor.pc = "failed"
  /\ (ctor.form = "range" /\ supplied = <<>>) => ctor.pc \in {"loop", "failed"}
  /\ ctor.pc = "failed" => (ctor.err # "none" /\ connections_ = <<>>)

\* C22 reached: two endpoints with different database indices were
\* connected and selected in order.
C22_Witness ==
  /\ ctor.pc = "done"
  /\ Len(supplied) = 2
  /\ supplied[1].dbindex = 1
  /\ supplied[2].dbindex = 0
  /\ Len(connections_) = 2

\* C22 reached: the second endpoint refused SELECT after the first had been
\* connected and selected.
C22_WitnessSelectFails ==
  /\ ctor.pc = "failed"
  /\ ctor.err = "protocol_error"
  /\ Len(ctor.met) = 2
  /\ connections_ = <<>>

\* C22 reached: an endpoint could not be connected.
C22_WitnessConnectFails ==
  /\ ctor.pc = "failed"
  /\ ctor.err = "connection_error"
  /\ Len(ctor.met) = 1
  /\ ~ctor.met[1].connected

\* C22 reached: an empty range was refused.
C22_WitnessEmpty ==
  /\ ctor.pc = "failed"
  /\ ctor.form = "range"
  /\ supplied = <<>>
  /\ ctor.err = "runtime_error"

\* C22 reached: the one-endpoint constructor returned.
C22_WitnessSingle ==
  /\ ctor.pc = "done"
  /\ ctor.form = "single"
  /\ Len(connections_) = 1

\* the connection set holds one connection per supplied endpoint, in the
\* order supplied, each with the descriptor its connect returned
OnePerEndpoint ==
  /\ connections_ # <<>>
  /\ Len(connections_) = Len(supplied)
  /\ \A i \in 1..Len(supplied) :
       /\ connections_[i].host = supplied[i].host
       /\ connections_[i].port = supplied[i].port
       /\ connections_[i].dbindex = supplied[i].dbindex
       /\ connections_[i].socket = 2 + i

\* C23: once a constructor has returned, the connection set is non-empty and
\* holds one connection per supplied endpoint in the supplied order, and no
\* operation of the client changes the set or a connection's socket, host,
\* port or database index.
C23_ConnectionsFixed ==
  [][ctor.pc = "done" =>
       /\ OnePerEndpoint
       /\ OnePerEndpoint'
       /\ connections_' = connections_]_vars

\* C23 reached: shutdown has made both peers close their connections, and
\* both connections are still in the set.
C23_Witness ==
  /\ ctor.pc = "done"
  /\ last.op = "shutdown"
  /\ closed = Handles
  /\ Len(connections_) = 2
  /\ OnePerEndpoint

\* C23 reached: select(dbindex) was answered +OK on a client with one
\* connection, whose recorded database index is still the supplied one.
C23_WitnessSelect ==
  /\ last.op = "select"
  /\ last.err = "none"
  /\ last.log[1].msg # SelectCommand(supplied[1].dbindex)
  /\ connections_[1].dbindex = supplied[1].dbindex

\* the payloads of the present bulk replies fed to the bulk decoder
PresentPayloads == {<<>>, <<"a">>, <<CR, LF>>, missing_value}

\* what the bulk decoder returns for $-1\r\n
MissingDecoded == recv_bulk_reply_(nil_bulk).s

\* C35: no present bulk reply decodes to the value that $-1\r\n decodes to.
C35_MissingDistinct ==
  \A P \in PresentPayloads :
    (fed.decoder = "bulk" /\ fed.head = bulk_reply(P) /\ Returned)
      => got.s # MissingDecoded

\* C35, what the code does: the missing value is an ordinary string, so the
\* present payload equal to it, and no other, decodes to the same value.
C35_SentinelInBand ==
  \A P \in PresentPayloads :
    (fed.decoder = "bulk" /\ fed.head = bulk_reply(P)) =>
      /\ Returned
      /\ got.s = P
      /\ (got.s = MissingDecoded) <=> (P = missing_value)

\* C35 reached: a present bulk reply of 19 bytes decoded to the value of a
\* missing one.
C35_Witness ==
  /\ fed.decoder = "bulk"
  /\ fed.head = bulk_reply(missing_value)
  /\ Len(fed.head) > Len(missing_value)
  /\ Returned
  /\ got.s = MissingDecoded

PopOps == {"blpop", "brpop"}

\* a blocking pop has read the reply to its own command
PopReplied ==
  /\ last.op \in PopOps
  /\ Len(last.log) = 2
  /\ last.log[1].unread = 0

\* C36: a blocking pop whose reply is not a two-element multi-bulk, the
\* timeout's *-1 included, returns ("", missing value) and raises nothing.
C36_TimeoutGivesSentinel ==
  (PopReplied /\ Len(last.l) # 2) =>
    /\ last.err = "none"
    /\ last.out = <<<<>>, missing_value>>

\* C36, what the code does: the multi-bulk decoder raises the key error for
\* *-1 before the pop looks at the element count; only a reply of another
\* size that decodes without error gives ("", missing value).
C36_TimeoutRaisesKeyError ==
  (PopReplied /\ Len(last.l) # 2) =>
    \/ last.err = "key_error" /\ last.out = <<>>
    \/ last.err = "none" /\ last.out = <<<<>>, missing_value>>

\* C36 reached: the timeout's *-1 left blpop as a key error.
C36_Witness ==
  /\ PopReplied
  /\ last.op = "blpop"
  /\ last.err = "key_error"
  /\ last.out = <<>>

\* C36 reached: an empty multi-bulk gave ("", missing value).
C36_WitnessEmpty ==
  /\ PopReplied
  /\ last.err = "none"
  /\ last.l = <<>>
  /\ last.out = <<<<>>, missing_value>>

\* the least element of a non-empty sequence of numbers
MinOf(ts) == CHOOSE m \in Range(ts) : \A t \in Range(ts) : m <= t

\* lastsave has returned after reading, on every connection, the reply to
\* its own command
LastsaveReturned ==
  /\ last.op = "lastsave"
  /\ last.err = "none"
  /\ \A i \in 1..Len(last.log) :
       IsSend(last.log[i]) => last.log[i].unread = 0

\* C37: lastsave() returns the least of the connections' timestamps.
C37_Minimum == LastsaveReturned => last.acc = MinOf(last.out)

\* the position of the last 0 before the final timestamp, 0 if there is none
LastZero(ts) ==
  IF \E k \in 1..(Len(ts) - 1) : ts[k] = 0
  THEN CHOOSE k \in 1..(Len(ts) - 1) :
         ts[k] = 0 /\ \A j \in (k + 1)..(Len(ts) - 1) : ts[j] # 0
  ELSE 0

\* C37, what the code does: a timestamp 0 makes the fold start again, so
\* the result is the least of the timestamps read after the last 0 that is
\* not the final one.
C37_MinimumSinceZero ==
  LastsaveReturned =>
    last.acc = MinOf(SubSeq(last.out, LastZero(last.out) + 1, Len(last.out)))

\* C37 reached: the timestamps 0 and 1 gave 1.
C37_Witness ==
  /\ LastsaveReturned
  /\ last.out = <<0, 1>>
  /\ last.acc = 1

ZstoreOps == {"zunionstore", "zinterstore"}

ZstoreName(op) ==
  IF op = "zunionstore"
  THEN <<"Z", "U", "N", "I", "O", "N", "S", "T", "O", "R", "E">>
  ELSE <<"Z", "I", "N", "T", "E", "R", "S", "T", "O", "R", "E">>

\* the keyword of an aggregate type
AggregateKeyword(aggragate) ==
  CASE aggragate = sum -> <<"S", "U", "M">>
    [] aggragate = min -> <<"M", "I", "N">>
    [] OTHER -> <<"M", "A", "X">>

\* the command with the one keyword of the aggregate type after AGGREGATE
OneKeywordCommand(op, dstkey, keys_, weights, aggragate) ==
  makecmd_str(
    shl_string(
      shl_string(
        with_weights(
          shl_vector(shl_int(shl_string(makecmd(ZstoreName(op)), dstkey),
                             Len(keys_)),
                     keys_),
          weights),
        <<"A", "G", "G", "R", "E", "G", "A", "T", "E">>),
      AggregateKeyword(aggragate)))

\* the keywords the switch appends for an aggregate type: from its own
\* case down to the last
KeywordsFrom(aggragate) ==
  CASE aggragate = sum -> <<<<"S", "U", "M">>, <<"M", "I", "N">>, <<"M", "A", "X">>>>
    [] aggragate = min -> <<<<"M", "I", "N">>, <<"M", "A", "X">>>>
    [] OTHER -> <<<<"M", "A", "X">>>>

FallThroughCommand(op, dstkey, keys_, weights, aggragate) ==
  makecmd_str(
    shl_vector(
      shl_string(
        with_weights(
          shl_vector(shl_int(shl_string(makecmd(ZstoreName(op)), dstkey),
                             Len(keys_)),
                     keys_),
          weights),
        <<"A", "G", "G", "R", "E", "G", "A", "T", "E">>),
      KeywordsFrom(aggragate)))

\* zunionstore or zinterstore has written its command
ZstoreSent == last.op \in ZstoreOps /\ last.log # <<>>

\* C39: the command zunionstore and zinterstore write ends with AGGREGATE
\* and the one keyword of the aggregate type asked for.
C39_OneKeyword ==
  ZstoreSent =>
    \E weights \in Weights(Tail(last.keys)) :
      last.log[1].msg
        = OneKeywordCommand(last.op, Head(last.keys), Tail(last.keys),
                            weights, last.acc)

\* C39, what the code does: no case of the switch ends in a break, so SUM
\* is followed by MIN and MAX, and MIN by MAX; only MAX stands alone.
C39_FallThrough ==
  ZstoreSent =>
    \E weights \in Weights(Tail(last.keys)) :
      last.log[1].msg
        = FallThroughCommand(last.op, Head(last.keys), Tail(last.keys),
                             weights, last.acc)

\* C39 reached: zunionstore asked for sum wrote SUM MIN MAX, two arguments
\* more than its inputs imply.
C39_Witness ==
  /\ ZstoreSent
  /\ last.op = "zunionstore"
  /\ last.acc = sum
  /\ last.log[1].msg
       = FallThroughCommand(last.op, Head(last.keys), Tail(last.keys), <<>>, sum)
  /\ Len(last.log[1].msg)
       > Len(OneKeywordCommand(last.op, Head(last.keys), Tail(last.keys), <<>>, sum))

\* the number of elements by which the caller's container grew
VectorGrowth == Len(got.l) - Len(fed.out)

SetGrowth == Cardinality(got.set) - Cardinality(fed.outset)

\* C38: a multi-bulk decode keeps what the container holds, adds its M
\* elements, and returns the number of elements by which the container
\* grew, for the vector and for the set.
C38_CountIsGrowth ==
  \A elems \in ElemLists :
    fed.head = multi_bulk_of(elems) =>
      /\ fed.decoder = "multi_bulk" =>
           /\ Returned
           /\ SubSeq(got.l, 1, Len(fed.out)) = fed.out
           /\ got.n = VectorGrowth
      /\ fed.decoder = "multi_bulk_set" =>
           /\ Returned
           /\ fed.outset \subseteq got.set
           /\ got.n = SetGrowth

\* C38, amended: a multi-bulk decode keeps what the container holds, adds
\* its M elements and returns M; a vector grows by M, a set grows by the
\* number of distinct elements it did not hold yet, which is M or less.
C38_CountIsLength ==
  \A elems \in ElemLists :
    fed.head = multi_bulk_of(elems) =>
      /\ fed.decoder = "multi_bulk" =>
           /\ Returned
           /\ SubSeq(got.l, 1, Len(fed.out)) = fed.out
           /\ got.n = Len(elems)
           /\ got.n = VectorGrowth
      /\ fed.decoder = "multi_bulk_set" =>
           /\ Returned
           /\ fed.outset \subseteq got.set
           /\ got.n = Len(elems)
           /\ SetGrowth
                = Cardinality(Range(ElementValues(elems)) \ fed.outset)
           /\ SetGrowth <= got.n

\* C38 reached: a vector holding one element took two more and 2 was
\* returned.
C38_Witness ==
  /\ fed.decoder = "multi_bulk"
  /\ fed.out = <<<<"z">>>>
  /\ fed.head = multi_bulk_of(<<<<"a">>, <<"b">>>>)
  /\ got.l = <<<<"z">>, <<"a">>, <<"b">>>>
  /\ got.n = 2

\* C38 reached: a set holding a took the elements a and b, grew by one, and
\* 2 was returned.
C38_WitnessSet ==
  /\ fed.decoder = "multi_bulk_set"
  /\ fed.outset = {<<"a">>}
  /\ fed.head = multi_bulk_of(<<<<"a">>, <<"b">>>>)
  /\ got.set = {<<"a">>, <<"b">>}
  /\ got.n = 2

\* C38 for keys: the count returned is the number of elements added to out.
C38_KeysCount ==
  (last.op = "keys" /\ last.err = "none") => last.acc = Len(last.l)

\* C34: with more than one connection the index randomkey draws is one of
\* 0..N-1, the indices of the N connections.
C34_DrawInRange ==
  (last.op = "randomkey" /\ Len(connections_) > 1)
    => last.acc \in 0..(Len(connections_) - 1)

\* C34, what the code does: the draw is uniform over 0..N, both ends
\* included; a draw of N reads past the last connection, after which the
\* call crashes, fails to write, or uses whatever descriptor it read.
C34_DrawInclusive ==
  (last.op = "randomkey" /\ Len(connections_) > 1) =>
    /\ last.acc \in 0..Len(connections_)
    /\ last.acc < Len(connections_) =>
         (last.log # <<>> /\ last.log[1].socket = connections_[last.acc + 1].socket)
    /\ last.acc = Len(connections_) =>
         \/ last.err = "undefined" /\ last.log = <<>>
         \/ last.err = "connection_error" /\ last.log = <<>>
         \/ last.log # <<>> /\ last.log[1].socket \in Handles

\* C34 reached: with two connections the draw was 2 and the read past the
\* end left the call's behaviour undefined.
C34_Witness ==
  /\ last.op = "randomkey"
  /\ Len(connections_) = 2
  /\ last.acc = 2
  /\ last.err = "undefined"

\* the descriptors the connects of this construction returned
OpenedDuringConstruction ==
  {2 + Cardinality({j \in 1..i : ctor.met[j].connected}) :
     i \in {j \in 1..Len(ctor.met) : ctor.met[j].connected}}

\* C33: when a construction fails part-way, every socket opened during that
\* construction has been closed by the time the error reaches the caller.
C33_NoneLeftOpen == ctor.pc = "failed" => OpenDescriptors = {}

\* What the constructors do: a construction that fails closes nothing, so
\* every descriptor its connects returned is still open and belongs to no
\* client; only the destructor of a constructed client closes descriptors.
C33_OpenedStayOpen ==
  /\ ctor.pc = "failed" =>
       /\ OpenDescriptors = OpenedDuringConstruction
       /\ connections_ = <<>>
  /\ ctor.pc = "destroyed" => OpenDescriptors = {}

\* C33 reached: the second endpoint refused SELECT; both descriptors are
\* open and no client owns them.
C33_Witness ==
  /\ ctor.pc = "failed"
  /\ Len(ctor.met) = 2
  /\ ctor.met[2].connected
  /\ OpenDescriptors = {3, 4}

\* C33 reached: a constructed client was destroyed and holds nothing open.
C33_WitnessDestroyed ==
  /\ ctor.pc = "destroyed"
  /\ Len(supplied) = 2
  /\ OpenDescriptors = {}

\* C31: reading a shared_int whose stored value is not a decimal integer,
\* the absent key's missing sentinel included, raises a value error, never
\* a protocol error or an unclassified conversion error; a decimal integer
\* is returned as its value.
C31_NonIntegerIsValueError ==
  (last.op = "to_int" /\ last.out # <<>>) =>
    /\ last.out[1] \notin StoredIntegers => last.err = "value_error"
    /\ last.out[1] \in StoredIntegers =>
         (last.err = "none" /\ lexical_cast_string(last.n) \in
            {last.out[1], Tail(last.out[1])})

\* C31 reached: the key was absent, get() returned the missing sentinel and
\* the read raised a value error.
C31_Witness ==
  /\ last.op = "to_int"
  /\ last.out = <<missing_value>>
  /\ last.err = "value_error"

\* C31 reached: the stored value was a string that is no integer.
C31_WitnessText ==
  /\ last.op = "to_int"
  /\ last.out = <<<<"4", "x">>>>
  /\ last.err = "value_error"

\* C31 reached: a stored integer was read.
C31_WitnessInteger ==
  /\ last.op = "to_int"
  /\ last.out = <<<<"-", "7">>>>
  /\ last.err = "none"
  /\ last.n = 0 - 7

\* ------------------------------------------------------------ shared_value
\* A plausible slip: the key is replaced whatever the client answered.
renamed_key_always(err, key, new_name) == new_name

\* shared_value::rename: client_conn_->rename(key_, new_name); key_ =
\* new_name; the assignment is reached only when rename returned.
renamed_key(err, key, new_name) == IF err = "none" THEN new_name ELSE key

\* A plausible slip: renamenx's result is ignored.
renamednx_key_always(err, n, key, new_name) ==
  IF err = "none" THEN new_name ELSE key

\* shared_value::renamenx: if (client_conn_->renamenx(key_, new_name)) {
\* key_ = new_name; return true; } return false; base_client::renamenx
\* returns recv_int_reply_(source_socket) == 1.
renamednx_key(err, n, key, new_name) ==
  IF err = "none" /\ n = 1 THEN new_name ELSE key

shared_value_rename(new_name, answer) ==
  /\ key_ # NoKey
  /\ rename(key_, new_name, answer)
  /\ key_' = renamed_key(last'.err, key_, new_name)

shared_value_renamenx(new_name, answer) ==
  /\ key_ # NoKey
  /\ renamenx(key_, new_name, answer)
  /\ key_' = renamednx_key(last'.err, last'.n, key_, new_name)

\* shared_value(client_conn, key): key_(key), on a client of one or two
\* connections
SharedInit ==
  /\ CodecIdle
  /\ DecoderIdle
  /\ ReaderIdle
  /\ \E n \in 1..MaxConns :
       /\ supplied = [i \in 1..n |->
            [host |-> "localhost", port |-> 6378 + i, dbindex |-> 0]]
       /\ connections_ = [i \in 1..n |->
            [host |-> "localhost", port |-> 6378 + i, dbindex |-> 0,
             socket |-> 2 + i]]
       /\ inbox = [s \in {2 + i : i \in 1..n} |-> <<>>]
       /\ ctor = [NoCtor EXCEPT !.form = "range", !.pc = "done", !.i = n + 1]
  /\ closed = {}
  /\ last = NoOp
  /\ routed = [k \in Keys |-> -1]
  /\ key_ \in Keys

SharedNext ==
  \/ \E new_name \in Keys, answer \in OkAnswers :
       shared_value_rename(new_name, answer)
         /\ UNCHANGED <<codecVars, decoderVars, readerVars, ctorVars>>
  \/ \E new_name \in Keys, answer \in IntAnswers :
       shared_value_renamenx(new_name, answer)
         /\ UNCHANGED <<codecVars, decoderVars, readerVars, ctorVars>>
  \/ Release /\ UNCHANGED notClient

SpecShared == SharedInit /\ [][SharedNext]_vars

\* renamenx() returned true
RenamenxTrue == last.err = "none" /\ last.n = 1

\* C40: a shared_value's key changes only when the rename went through:
\* after a rename() that raises, or a renamenx() that returns false or
\* raises, key() is the old name; after a rename() that returns normally or
\* a renamenx() that returns true, key() is the new name.
C40_KeyFollowsRename ==
  /\ last.op = "rename" =>
       key_ = IF last.err = "none" THEN last.keys[2] ELSE last.keys[1]
  /\ last.op = "renamenx" =>
       key_ = IF RenamenxTrue THEN last.keys[2] ELSE last.keys[1]

\* C40 reached: a rename to another name was refused and the key is the
\* old name.
C40_Witness ==
  /\ last.op = "rename"
  /\ last.err # "none"
  /\ last.keys[1] # last.keys[2]
  /\ key_ = last.keys[1]

\* C40 reached: a rename returned and the key is the new name.
C40_WitnessRenamed ==
  /\ last.op = "rename"
  /\ last.err = "none"
  /\ last.keys[1] # last.keys[2]
  /\ key_ = last.keys[2]

\* C40 reached: renamenx returned false and the key is the old name.
C40_WitnessNxFalse ==
  /\ last.op = "renamenx"
  /\ last.err = "none"
  /\ last.n = 0
  /\ last.keys[1] # last.keys[2]
  /\ key_ = last.keys[1]

\* C40 reached: renamenx returned true and the key is the new name.
C40_WitnessNxTrue ==
  /\ last.op = "renamenx"
  /\ RenamenxTrue
  /\ last.keys[1] # last.keys[2]
  /\ key_ = last.keys[2]

\* what mget hands back for a key the servers answered for
ServerAnswer(key) == IF key = AbsentKey THEN missing_value ELSE key

\* mget returned
MgetReturned == last.op = "mget" /\ last.err = "none"

\* C32: mget returns a sequence as long as the key list whose i-th element
\* is the server's answer for the i-th key, the missing sentinel when the
\* key is absent, however the keys are spread over the connections.
C32_AnswersInKeyOrder ==
  MgetReturned =>
    /\ Len(last.out) = Len(last.keys)
    /\ \A i \in 1..Len(last.keys) : last.out[i] = ServerAnswer(last.keys[i])

\* What the code does: the answers are in key order when no connection mget
\* writes to holds unread bytes of an earlier reply.
C32_AnswersWhenNothingStale ==
  (MgetReturned
   /\ \A i \in 1..Len(last.log) :
        IsSend(last.log[i]) => last.log[i].unread = 0) =>
    /\ Len(last.out) = Len(last.keys)
    /\ \A i \in 1..Len(last.keys) : last.out[i] = ServerAnswer(last.keys[i])

\* C32 reached: mget returned a list that is not the servers' answers for
\* its keys.
C32_Witness ==
  /\ MgetReturned
  /\ \E i \in 1..Len(last.keys) : last.out[i] # ServerAnswer(last.keys[i])

\* C32 reached: two keys on two connections, one of them absent, answered
\* in key order.
C32_WitnessFresh ==
  /\ MgetReturned
  /\ Len(last.keys) = 2
  /\ last.route[1] # last.route[2]
  /\ last.out = <<ServerAnswer(last.keys[1]), ServerAnswer(last.keys[2])>>
  /\ missing_value \in {last.out[1], last.out[2]}

====
